---- MODULE Spec2Model ----
(***************************************************************************)
(* State-machine model of the paqet tunnel core.                          *)
(*                                                                         *)
(* The module holds one group of variables per subsystem and one          *)
(* specification per subsystem:                                            *)
(*   SpecSink   - server shared-UDP sink registry (udpConnPool)           *)
(*   SpecPool   - client UDP stream pool and network-change handling      *)
(*   SpecSock   - packet endpoint (PacketConn): guard rules, Close, reads *)
(*   SpecBPF    - the pure-Go classic-BPF filter compiler                 *)
(* A specification leaves the variables of the other subsystems at their  *)
(* initial values.                                                         *)
(***************************************************************************)
EXTENDS Integers, Sequences, FiniteSets, TLC

Nil == 0

\* ------------------------------------------------------------------------
\* Bounds of the model
\* ------------------------------------------------------------------------
NHandlers == 4      \* stream handlers (Server.handleUDP goroutines)

\* ------------------------------------------------------------------------
\* Server shared-UDP sink: state
\* ------------------------------------------------------------------------
VARIABLES
    conns,      \* udpConnPool.conns : target addr -> sink id (Nil = no entry)
    sink,       \* sink id -> sharedUDPConn record
    sinkCount,  \* number of sharedUDPConn objects created so far
    mu,         \* udpConnPool.mu : Nil or the handler holding it
    hpc,        \* handler -> position in handleUDP / getOrCreate / release
    haddr,      \* handler -> target address of its stream
    hshared,    \* handler -> the *sharedUDPConn it holds (local "shared")
    hold        \* handler -> streams pointer loaded for the pending CAS

sinkVars == <<conns, sink, sinkCount, mu, hpc, haddr, hshared, hold>>

\* Server: the dedicated socket of a handler in handleUDPDirect
VARIABLES
    hdirect     \* handler -> its own UDP socket: "none", "open" or "closed"
directVars == <<hdirect>>

\* Server: the read loop of the first shared sink (sharedUDPConn.readLoop)
VARIABLES
    nextIdx,    \* s.nextIdx, the round-robin counter
    rl,         \* the readLoop goroutine: position, loaded array, index
    rlLog       \* history: the current run of datagrams written at the
                \* first try while the subscriber array stayed the same
rlVars == <<nextIdx, rl, rlLog>>

\* ------------------------------------------------------------------------
\* BPF compiler: state of one compile-and-run of a filter on a frame
\* ------------------------------------------------------------------------
VARIABLES
    bpfVariant, \* which compileBPFFilter of the two in the repository is built
    bpfFilter,  \* the parsed filter string
    bpfFrame,   \* the captured frame the program runs on
    bpfProg,    \* the compiled program (<<>> before compiling or on error)
    bpfPc,      \* index of the next instruction (0-based, as in the kernel VM)
    bpfA,       \* accumulator
    bpfX,       \* index register
    bpfResult   \* the outcome of the filter on the frame (see Outcome, Returned)

bpfVars == <<bpfVariant, bpfFilter, bpfFrame, bpfProg, bpfPc, bpfA, bpfX,
             bpfResult>>

\* Packet endpoints (socket.PacketConn) of one host on one interface
VARIABLES
    backend,        \* cfg.PCAP.Backend as resolved by newHandle: "afpacket" or "pcap"
    ipt,            \* the kernel's iptables: rule -> number of copies
    ep,             \* per endpoint: the PacketConn, its reader and its Close
    sharedHandles,  \* the shared AF_PACKET handle of the interface
    ring            \* frames queued for reading: ring[0] shared, ring[e] pcap of e
sockVars == <<backend, ipt, ep, sharedHandles, ring>>

\* PacketConn.ReadFrom on a raw handle whose reads can time out
VARIABLES
    rd,             \* per goroutine: its ReadFrom call
    rdCtxDone,      \* c.ctx is cancelled
    rdDeadline      \* c.readDeadline against the clock: "none", "future", "past"
readVars == <<rd, rdCtxDone, rdDeadline>>

\* Client: UDP stream pool, network monitor, reconnect loops
VARIABLES
    strms,          \* udpPool.strms: key -> stream (Nil: no entry)
    stream,         \* every stream newStrm has opened: "open" or "closed"
    sidCount,       \* streams opened so far
    caller,         \* per goroutine: its Client.UDP call
    closer,         \* the goroutine calling Client.CloseUDP
    mon,            \* the network monitor in handleNetworkChange
    reconnectCh,    \* per connection: signals buffered in tc.reconnectCh
    disturbed       \* per key: a CloseUDP or invalidation has acted on it
poolVars == <<strms, stream, sidCount, caller, closer, mon, reconnectCh,
              disturbed>>

\* Client: the network monitor goroutine (startNetworkMonitor)
VARIABLES
    lastState,      \* startNetworkMonitor's local lastState
    seenIP          \* history: the last non-empty address the monitor observed
netVars == <<lastState, seenIP>>
\* Client: the session's connections (timedConn), newStrm callers, the
\* reconnect loops and the health check
VARIABLES
    tcConn,         \* per timedConn: tc.conn (Nil: no current connection)
    tcMu,           \* per timedConn: tc.mu is held across steps (by reconnect)
    cMu,            \* Client.mu: Nil or the newStrm caller holding it
    iterIndex,      \* c.iter.index modulo len(c.iter.Items)
    tconn,          \* every transport connection dialled: state, TCPF frames
    connCount,      \* transport connections dialled so far
    sendPending,    \* the connection of a "go tc.sendTCPF(conn)" not yet run
    loop,           \* per timedConn: its reconnectLoop goroutine
    worker,         \* per goroutine: its Client.newStrm call
    health,         \* the ticker goroutine in healthCheck
    pingFailed      \* history: a ping failed and no dial has followed yet
connVars == <<tcConn, tcMu, cMu, iterIndex, tconn, connCount, sendPending,
              loop, worker, health, pingFailed>>

\* Protocol frames: one Proto.Write followed by one Proto.Read
VARIABLES
    prIn,           \* the frame p given to Write and the bytes behind it
    prWire,         \* what Write put on the writer, and its error
    prOut,          \* what Read decoded, the bytes it consumed, its error
    prPc            \* "start", "written" or "read"
protoVars == <<prIn, prWire, prOut, prPc>>

\* Streams opened by the initiators of the client
VARIABLES
    ostrm,          \* every stream opened: who opened it, what was written
    ostrmCount      \* streams opened so far
strmVars == <<ostrm, ostrmCount>>

\* UDP datagrams framed on a reliable stream (package buffer)
VARIABLES
    ufStream,       \* the bytes written to the stream and not yet read
    ufSent,         \* the datagrams WriteUDPFrame accepted, in order
    ufRecv,         \* what the ReadUDPFrame calls returned, in order
    ufCall          \* the last WriteUDPFrame call: number, length, error
frameVars == <<ufStream, ufSent, ufRecv, ufCall>>

\* UDP-mux server: the demultiplexer of one listener (udp.Demux)
VARIABLES
    dmCipher,       \* d.cipher: the key of the cipher, "" for nil
    dmClients,      \* d.clients: source address -> client entry and channel
    dmNewConn,      \* d.newConn: the entries queued for Accept
    dmLoop,         \* the readLoop goroutine: "running", "done" or "panic"
    dmClosed,       \* Demux.Close has run
    dmLast          \* the last packet readLoop took, its number, its fate
demuxVars == <<dmCipher, dmClients, dmNewConn, dmLoop, dmClosed, dmLast>>

\* Crafted TCP packets to one destination: the sequence numbers
VARIABLES
    sqBase,         \* the flow's base sequence, a uint32 as <<hi16, lo16>>
    sqCounter,      \* the flow's packet counter, a uint32 as <<hi16, lo16>>
    sqSender,       \* per sending goroutine: position and the seq it computed
    sqIssued,       \* history: the sequence numbers in the order of the counter
    sqWire          \* the sequence numbers in the order the packets went out
seqVars == <<sqBase, sqCounter, sqSender, sqIssued, sqWire>>

\* The UDP-mux transport configuration
VARIABLES
    cfIn,           \* history: the UDP section as it was loaded
    cfU,            \* the UDP section
    cfRole,         \* the role setDefaults is called with
    cfPc            \* "off", "loaded", "defaulted"
cfgVars == <<cfIn, cfU, cfRole, cfPc>>

\* Server shared-UDP sink: what the read loop did with the datagram in hand
VARIABLES
    rlTry           \* history: the array it used, where it started, the
                    \* subscribers written to in order, and who got it
tryVars == <<rlTry>>

\* Client: the reader goroutines TUN.handleUDP starts for new UDP streams
VARIABLES
    skey,           \* per stream: the key its handler got it under ("": none)
    rdr             \* per stream: its reader: "none", "reading", "closing", "gone"
rdrVars == <<skey, rdr>>

\* Client: shutdown of the session, and what raised each reconnect signal
VARIABLES
    ctxDone,        \* the context given to Client.Start is cancelled
    shut,           \* per timedConn: tc.close() has run
    sigCause,       \* history, per timedConn: the connection whose failure
                    \* raised the signal in reconnectCh (0: the caller found
                    \* no connection; -1: no signal)
    loopCause       \* history, per timedConn: the same for the signal the
                    \* reconnect in progress was started by
sessVars == <<ctxDone, shut, sigCause, loopCause>>

\* UDP-mux server: the read loop between ReadFrom and the channel sends
VARIABLES
    dmHeld,         \* the packet ReadFrom returned and readLoop is handling
    dmSentClosed,   \* history: readLoop sent on d.newConn after close(d.newConn)
    dmAccepted      \* history: the clients Accept has returned so far
dmqVars == <<dmHeld, dmSentClosed, dmAccepted>>

\* The round-robin iterator over the session's endpoints
VARIABLES
    itItems,        \* len(it.Items)
    itIndex,        \* it.index
    itCall,         \* per goroutine: its Next call: position and local i
    itLog           \* history: the result of the call that drew index i
iterVars == <<itItems, itIndex, itCall, itLog>>

\* Packet endpoint: what ReadFrom handed to the transport
VARIABLES
    rdN             \* per reader: the n its last ReadFrom returned with a nil
                    \* error (-1: none yet)
rdnVars == <<rdN>>

\* The pool's variables other than the reconnect channels
poolRest == <<strms, stream, sidCount, caller, closer, mon, disturbed>>

\* The subsystems of the wire formats and of the configuration
moreVars == <<tryVars, rdrVars, sessVars, dmqVars, iterVars, rdnVars>>
wireVars0 == <<protoVars, strmVars, frameVars, demuxVars, seqVars, cfgVars>>
wireVars == <<wireVars0, moreVars>>

vars == <<sinkVars, directVars, rlVars, bpfVars, sockVars, readVars, poolVars,
          netVars, connVars, wireVars>>

\* What each subsystem's steps leave alone
coreVars == <<sinkVars, directVars, rlVars, bpfVars, sockVars, readVars,
              poolVars, netVars, connVars>>
notProto == <<coreVars, strmVars, frameVars, demuxVars, seqVars, cfgVars,
             moreVars>>
notStrm  == <<coreVars, protoVars, frameVars, demuxVars, seqVars, cfgVars,
             moreVars>>
notFrame == <<coreVars, protoVars, strmVars, demuxVars, seqVars, cfgVars,
             moreVars>>
notDemux == <<coreVars, protoVars, strmVars, frameVars, seqVars, cfgVars,
             moreVars>>
notSeq   == <<coreVars, protoVars, strmVars, frameVars, demuxVars, cfgVars,
             moreVars>>
notCfg   == <<coreVars, protoVars, strmVars, frameVars, demuxVars, seqVars,
             moreVars>>
notServer == <<bpfVars, sockVars, readVars, poolVars, netVars, connVars,
               wireVars>>
notSink == <<directVars, rlVars, notServer>>
notDirect == <<rlVars, notServer>>
notReadLoop == <<directVars, notServer>>
notReadLoopTry == <<directVars, bpfVars, sockVars, readVars, poolVars, netVars,
                    connVars, wireVars0, rdrVars, sessVars, dmqVars, iterVars,
                    rdnVars>>
notPoolRdr == <<sinkVars, directVars, rlVars, bpfVars, sockVars, readVars,
                netVars, connVars, wireVars0, tryVars, sessVars, dmqVars,
                iterVars, rdnVars>>
notConnSess == <<sinkVars, directVars, rlVars, bpfVars, sockVars, readVars,
                 netVars, poolRest, wireVars0, tryVars, rdrVars, dmqVars,
                 iterVars, rdnVars>>
notDemuxQ == <<coreVars, protoVars, strmVars, frameVars, seqVars, cfgVars,
               tryVars, rdrVars, sessVars, iterVars, rdnVars>>
notIter == <<coreVars, wireVars0, tryVars, rdrVars, sessVars, dmqVars, rdnVars>>
notReadN == <<sinkVars, directVars, rlVars, bpfVars, sockVars, poolVars, netVars,
              connVars, wireVars0, tryVars, rdrVars, sessVars, dmqVars, iterVars>>
notSinkTry == <<rlVars, tryVars, notReadLoopTry>>
notBPF  == <<sinkVars, directVars, rlVars, sockVars, readVars, poolVars, netVars,
            connVars,
            wireVars>>
notSock == <<sinkVars, directVars, rlVars, bpfVars, readVars, poolVars, netVars,
            connVars,
            wireVars>>
notPool == <<sinkVars, directVars, rlVars, bpfVars, sockVars, readVars, netVars,
            connVars,
            wireVars>>
notMon  == <<sinkVars, directVars, rlVars, bpfVars, sockVars, readVars, connVars,
            wireVars>>
notConn == <<sinkVars, directVars, rlVars, bpfVars, sockVars, readVars, netVars,
            poolRest,
            wireVars>>
notRead == <<sinkVars, directVars, rlVars, bpfVars, sockVars, poolVars, netVars,
            connVars,
            wireVars>>

Handlers == 1..NHandlers
SinkIds  == 1..NHandlers

\* p.Addr of the PUDP frames the handlers accept, and addr := p.Addr.String()
PAddrs == {[host |-> "10.0.0.1", port |-> 4789],
           [host |-> "10.0.0.53", port |-> 53]}
AddrString(a) == a.host \o ":" \o ToString(a.port)
Targets  == {AddrString(a) : a \in PAddrs}
PortOf(addr) == (CHOOSE a \in PAddrs : AddrString(a) = addr).port

\* A sharedUDPConn that has not been allocated yet.
NoSink == [addr |-> "", refCount |-> 0, sock |-> "none", cancelled |-> FALSE,
           streams |-> <<>>, ptr |-> 0]

\* &sharedUDPConn{conn, addr, refCount: 1, cancel} with an empty stream array.
NewSink(addr) == [addr |-> addr, refCount |-> 1, sock |-> "open",
                  cancelled |-> FALSE, streams |-> <<>>, ptr |-> 0]

\* No read loop runs (no sink has been created).
NoReadLoop == [pc |-> "none", snap |-> <<>>, ptr |-> 0, idx |-> 0, tries |-> 0]
NoRun == [ptr |-> 0, n |-> 0, to |-> <<>>]
ReadLoopIdle ==
    /\ nextIdx = 0
    /\ rl = NoReadLoop
    /\ rlLog = NoRun

SinkState0 ==
    /\ conns = [t \in Targets |-> Nil]
    /\ sink = [s \in SinkIds |-> NoSink]
    /\ sinkCount = 0
    /\ mu = Nil
    /\ hpc = [h \in Handlers |-> "accept"]
    /\ haddr = [h \in Handlers |-> ""]
    /\ hshared = [h \in Handlers |-> Nil]
    /\ hold = [h \in Handlers |-> 0]
    /\ hdirect = [h \in Handlers |-> "none"]
    /\ ReadLoopIdle

\* atomic.AddInt32(&shared.refCount, d)
AddRef(s, d) == [sink EXCEPT ![s].refCount = @ + d]

\* The handlers are numbered in the order in which their streams are
\* accepted.
NextAccepted(h) ==
    /\ hpc[h] = "accept"
    /\ \A o \in 1..(h - 1) : hpc[o] # "accept"

\* handleUDPProtocol: if p.Addr.Port == 53 the stream goes to
\* handleUDPDirect, otherwise to handleUDP.
DispatchAllShared(a) == FALSE
DispatchDirect(a) == a.port = 53

\* handleUDPProtocol dispatches a PUDP stream for a non-DNS target to
\* handleUDP, which calls getOrCreate; fast path: p.conns.Load(addr)
GetFastLoad(h) ==
    /\ NextAccepted(h)
    /\ \E a \in PAddrs :
        LET t == AddrString(a) IN
        /\ ~DispatchDirect(a)
        /\ haddr' = [haddr EXCEPT ![h] = t]
        /\ IF conns[t] # Nil
             THEN /\ hshared' = [hshared EXCEPT ![h] = conns[t]]
                  /\ hpc' = [hpc EXCEPT ![h] = "fastAdd"]
             ELSE /\ hpc' = [hpc EXCEPT ![h] = "lock"]
                  /\ UNCHANGED hshared
    /\ UNCHANGED <<conns, sink, sinkCount, mu, hold>>

\* getOrCreate, fast path: atomic.AddInt32(&shared.refCount, 1); return shared
GetFastAdd(h) ==
    /\ hpc[h] = "fastAdd"
    /\ sink' = AddRef(hshared[h], 1)
    /\ hpc' = [hpc EXCEPT ![h] = "addLoad"]
    /\ UNCHANGED <<conns, sinkCount, mu, haddr, hshared, hold>>

\* getOrCreate, slow path: p.mu.Lock() and the double-check Load
GetLockLoad(h) ==
    /\ hpc[h] = "lock"
    /\ mu = Nil
    /\ mu' = h
    /\ IF conns[haddr[h]] # Nil
         THEN /\ hshared' = [hshared EXCEPT ![h] = conns[haddr[h]]]
              /\ hpc' = [hpc EXCEPT ![h] = "slowAdd"]
         ELSE /\ hpc' = [hpc EXCEPT ![h] = "dial"]
              /\ UNCHANGED hshared
    /\ UNCHANGED <<conns, sink, sinkCount, haddr, hold>>

\* getOrCreate, slow path hit: AddInt32(+1), deferred Unlock, return shared
GetSlowAdd(h) ==
    /\ hpc[h] = "slowAdd"
    /\ sink' = AddRef(hshared[h], 1)
    /\ mu' = Nil
    /\ hpc' = [hpc EXCEPT ![h] = "addLoad"]
    /\ UNCHANGED <<conns, sinkCount, haddr, hshared, hold>>

\* getOrCreate, slow path miss: DialUDP, build the sharedUDPConn, Store it,
\* start the read loop, deferred Unlock.
GetDialStore(h) ==
    /\ hpc[h] = "dial"
    /\ LET s == sinkCount + 1 IN
        /\ sinkCount' = s
        /\ sink' = [sink EXCEPT ![s] = NewSink(haddr[h])]
        /\ conns' = [conns EXCEPT ![haddr[h]] = s]
        /\ hshared' = [hshared EXCEPT ![h] = s]
    /\ mu' = Nil
    /\ hpc' = [hpc EXCEPT ![h] = "addLoad"]
    /\ UNCHANGED <<haddr, hold>>

\* getOrCreate, slow path miss: ResolveUDPAddr or DialUDP fails; handleUDP
\* returns the error without a sink.
GetDialFail(h) ==
    /\ hpc[h] = "dial"
    /\ mu' = Nil
    /\ hpc' = [hpc EXCEPT ![h] = "done"]
    /\ UNCHANGED <<conns, sink, sinkCount, haddr, hshared, hold>>

\* addStream / removeStream: oldPtr := s.streams.Load()
StreamsLoad(h, at, next) ==
    /\ hpc[h] = at
    /\ hold' = [hold EXCEPT ![h] = sink[hshared[h]].ptr]
    /\ hpc' = [hpc EXCEPT ![h] = next]
    /\ UNCHANGED <<conns, sink, sinkCount, mu, haddr, hshared>>

\* The array removeStream builds: every element that is not strm.
Without(seq, strm) == SelectSeq(seq, LAMBDA x : x # strm)

\* s.streams.CompareAndSwap(oldPtr, &newStreams): succeeds when the pointer is
\* still the one loaded (the array is only ever replaced, so an unchanged
\* pointer means the array copied from is the current one, and newStreams is
\* built from it); otherwise the loop loads again.
StreamsCASNoRetry(h, at, retry, next, newStreams) ==
    /\ hpc[h] = at
    /\ LET s == hshared[h] IN
        IF sink[s].ptr = hold[h]
          THEN /\ sink' = [sink EXCEPT ![s].streams = newStreams,
                                       ![s].ptr = @ + 1]
               /\ hpc' = [hpc EXCEPT ![h] = next]
          ELSE /\ hpc' = [hpc EXCEPT ![h] = next]
               /\ UNCHANGED sink
    /\ UNCHANGED <<conns, sinkCount, mu, haddr, hshared, hold>>
StreamsCAS(h, at, retry, next, newStreams) ==
    /\ hpc[h] = at
    /\ LET s == hshared[h] IN
        IF sink[s].ptr = hold[h]
          THEN /\ sink' = [sink EXCEPT ![s].streams = newStreams,
                                       ![s].ptr = @ + 1]
               /\ hpc' = [hpc EXCEPT ![h] = next]
          ELSE /\ hpc' = [hpc EXCEPT ![h] = retry]
               /\ UNCHANGED sink
    /\ UNCHANGED <<conns, sinkCount, mu, haddr, hshared, hold>>

\* handleUDPProtocol: p.Addr.Port == 53 -> handleUDPDirect: ResolveUDPAddr
\* and net.DialUDP give the stream a socket of its own; the response reader
\* goroutine and the main loop start.
HandleUDPDirectDial(h) ==
    /\ NextAccepted(h)
    /\ \E a \in PAddrs :
        /\ DispatchDirect(a)
        /\ haddr' = [haddr EXCEPT ![h] = AddrString(a)]
    /\ hdirect' = [hdirect EXCEPT ![h] = "open"]
    /\ hpc' = [hpc EXCEPT ![h] = "direct"]
    /\ UNCHANGED <<conns, sink, sinkCount, mu, hshared, hold>>

\* handleUDPDirect: ResolveUDPAddr or DialUDP failed; return err
HandleUDPDirectDialFail(h) ==
    /\ NextAccepted(h)
    /\ \E a \in PAddrs :
        /\ DispatchDirect(a)
        /\ haddr' = [haddr EXCEPT ![h] = AddrString(a)]
    /\ hpc' = [hpc EXCEPT ![h] = "done"]
    /\ UNCHANGED <<conns, sink, sinkCount, mu, hshared, hold, hdirect>>

\* handleUDPDirect's main loop ends (ctx.Done, ReadUDPFrame or conn.Write
\* error); the deferred conn.Close() runs.  While it runs, every response
\* read from the handler's socket is written to the handler's stream.
HandleUDPDirectExit(h) ==
    /\ hpc[h] = "direct"
    /\ hdirect' = [hdirect EXCEPT ![h] = "closed"]
    /\ hpc' = [hpc EXCEPT ![h] = "done"]
    /\ UNCHANGED <<conns, sink, sinkCount, mu, haddr, hshared, hold>>

AddStreamLoad(h) == StreamsLoad(h, "addLoad", "addCAS")
AddStreamCAS(h) ==
    StreamsCAS(h, "addCAS", "addLoad", "loop",
               Append(sink[hshared[h]].streams, h))

RemoveStreamLoad(h) == StreamsLoad(h, "rmLoad", "rmCAS")
RemoveStreamCAS(h) ==
    StreamsCAS(h, "rmCAS", "rmLoad", "relDec",
               Without(sink[hshared[h]].streams, h))

\* handleUDP main loop ends: ctx.Done(), a ReadUDPFrame error (the stream
\* ended) or a failed shared.conn.Write; the deferred removeStream and release
\* run.  While the handler stays in the loop every frame it reads is written to
\* shared.conn, which changes none of the modelled state.
HandlerExit(h) ==
    /\ hpc[h] = "loop"
    /\ hpc' = [hpc EXCEPT ![h] = "rmLoad"]
    /\ UNCHANGED <<conns, sink, sinkCount, mu, haddr, hshared, hold>>

\* release: atomic.AddInt32(&shared.refCount, -1) == 0 ?
ReleaseDec(h) ==
    /\ hpc[h] = "relDec"
    /\ sink' = AddRef(hshared[h], -1)
    /\ hpc' = [hpc EXCEPT ![h] =
                 IF sink[hshared[h]].refCount - 1 = 0 THEN "relDelete" ELSE "done"]
    /\ UNCHANGED <<conns, sinkCount, mu, haddr, hshared, hold>>

\* release: p.conns.Delete(shared.addr) removes whatever entry the address has
ReleaseDelete(h) ==
    /\ hpc[h] = "relDelete"
    /\ conns' = [conns EXCEPT ![sink[hshared[h]].addr] = Nil]
    /\ hpc' = [hpc EXCEPT ![h] = "relCancel"]
    /\ UNCHANGED <<sink, sinkCount, mu, haddr, hshared, hold>>

\* release: shared.cancel()
ReleaseCancel(h) ==
    /\ hpc[h] = "relCancel"
    /\ sink' = [sink EXCEPT ![hshared[h]].cancelled = TRUE]
    /\ hpc' = [hpc EXCEPT ![h] = "relClose"]
    /\ UNCHANGED <<conns, sinkCount, mu, haddr, hshared, hold>>

\* release: shared.conn.Close()
ReleaseClose(h) ==
    /\ hpc[h] = "relClose"
    /\ sink' = [sink EXCEPT ![hshared[h]].sock = "closed"]
    /\ hpc' = [hpc EXCEPT ![h] = "done"]
    /\ UNCHANGED <<conns, sinkCount, mu, haddr, hshared, hold>>


\* ------------------------------------------------------------------------
\* Server shared-UDP sink: the read loop
\* ------------------------------------------------------------------------

MaxDatagrams == 5   \* datagrams the read loop takes from the socket in a run
rlSink == 1         \* the sink whose read loop is modelled: the first created

\* The history after a datagram: one that was dropped, given up or written
\* only after a write error ends the run; one read under another subscriber
\* array starts a new run; the recipients of the last NHandlers datagrams of
\* the run are kept.
Logged(entry) ==
    IF ~entry.ok THEN NoRun
    ELSE IF entry.ptr # rlLog.ptr
      THEN [ptr |-> entry.ptr, n |-> entry.n, to |-> <<entry.to>>]
    ELSE IF Len(rlLog.to) < NHandlers
      THEN [rlLog EXCEPT !.to = Append(@, entry.to)]
    ELSE [rlLog EXCEPT !.to = Append(Tail(@), entry.to)]

\* The handlers accepted streams for the non-DNS target one after the
\* other: the first created the sink and started its read loop, each added
\* its stream, all are in their main loops.
ReadLoopInit ==
    \E k \in {NHandlers}, a \in PAddrs :
        /\ ~DispatchDirect(a)
        /\ conns = [t \in Targets |-> IF t = AddrString(a) THEN rlSink ELSE Nil]
        /\ sink = [s \in SinkIds |->
                     IF s = rlSink
                       THEN [NewSink(AddrString(a)) EXCEPT
                                !.refCount = k,
                                !.streams = [j \in 1..k |-> j],
                                !.ptr = k]
                       ELSE NoSink]
        /\ sinkCount = 1
        /\ mu = Nil
        /\ hpc = [h \in Handlers |-> IF h <= k THEN "loop" ELSE "accept"]
        /\ haddr = [h \in Handlers |-> IF h <= k THEN AddrString(a) ELSE ""]
        /\ hshared = [h \in Handlers |-> IF h <= k THEN rlSink ELSE Nil]
        /\ hold = [h \in Handlers |-> IF h <= k THEN h - 1 ELSE 0]
        /\ hdirect = [h \in Handlers |-> "none"]
        /\ nextIdx = 0
        /\ rl = [NoReadLoop EXCEPT !.pc = "read"]
        /\ rlLog = NoRun

\* readLoop: ctx is not done; s.conn.Read returns a datagram; the stream
\* array is loaded; with no subscriber the datagram is dropped; otherwise
\* idx := atomic.AddUint64(&s.nextIdx, 1) % numStreams.  (A read that times
\* out after 60 s loops without changing anything.  nextIdx is a uint64: it
\* does not wrap within MaxDatagrams datagrams.)
ReadLoopReadSameIdx ==
    /\ rl.pc = "read"
    /\ ~sink[rlSink].cancelled
    /\ nextIdx < MaxDatagrams
    /\ LET streams == sink[rlSink].streams
           numStreams == Len(streams)
       IN IF numStreams = 0
            THEN /\ rlLog' = Logged([to |-> Nil, n |-> 0,
                                     ptr |-> sink[rlSink].ptr, ok |-> FALSE])
                 /\ UNCHANGED <<nextIdx, rl>>
            ELSE /\ nextIdx' = nextIdx + 1
                 /\ rl' = [pc |-> "write", snap |-> streams,
                           ptr |-> sink[rlSink].ptr,
                           idx |-> 0, tries |-> 0]
                 /\ UNCHANGED rlLog
    /\ UNCHANGED sinkVars
ReadLoopRead ==
    /\ rl.pc = "read"
    /\ ~sink[rlSink].cancelled
    /\ nextIdx < MaxDatagrams
    /\ LET streams == sink[rlSink].streams
           numStreams == Len(streams)
       IN IF numStreams = 0
            THEN /\ rlLog' = Logged([to |-> Nil, n |-> 0,
                                     ptr |-> sink[rlSink].ptr, ok |-> FALSE])
                 /\ UNCHANGED <<nextIdx, rl>>
            ELSE /\ nextIdx' = nextIdx + 1
                 /\ rl' = [pc |-> "write", snap |-> streams,
                           ptr |-> sink[rlSink].ptr,
                           idx |-> (nextIdx + 1) % numStreams, tries |-> 0]
                 /\ UNCHANGED rlLog
    /\ UNCHANGED sinkVars

\* The subscriber the pending write goes to: streams[idx] first, then
\* streams[(int(idx) + i) % numStreams] for i = 1, 2, ...
WriteTargetNoWrap ==
    rl.snap[(IF rl.idx + rl.tries < Len(rl.snap)
               THEN rl.idx + rl.tries ELSE Len(rl.snap) - 1) + 1]
WriteTarget == rl.snap[((rl.idx + rl.tries) % Len(rl.snap)) + 1]

\* readLoop: buffer.WriteUDPFrame(strm, buf[:n]) returned nil
ReadLoopWriteOK ==
    /\ rl.pc = "write"
    /\ rlLog' = Logged([to |-> WriteTarget, n |-> Len(rl.snap), ptr |-> rl.ptr,
                        ok |-> rl.tries = 0])
    /\ rl' = [NoReadLoop EXCEPT !.pc = "read"]
    /\ UNCHANGED <<nextIdx, sinkVars>>

\* readLoop: WriteUDPFrame returned an error: the next subscriber is tried,
\* and when all have failed the datagram is given up.
ReadLoopWriteFail ==
    /\ rl.pc = "write"
    /\ IF rl.tries + 1 < Len(rl.snap)
         THEN /\ rl' = [rl EXCEPT !.tries = @ + 1]
              /\ UNCHANGED rlLog
         ELSE /\ rl' = [NoReadLoop EXCEPT !.pc = "read"]
              /\ rlLog' = Logged([to |-> Nil, n |-> Len(rl.snap),
                                  ptr |-> rl.ptr, ok |-> FALSE])
    /\ UNCHANGED <<nextIdx, sinkVars>>

\* readLoop: ctx.Done() at the top of the loop, or a Read error with
\* ctx.Err() != nil: return
ReadLoopCancelled ==
    /\ rl.pc = "read"
    /\ sink[rlSink].cancelled
    /\ rl' = [NoReadLoop EXCEPT !.pc = "stopped"]
    /\ UNCHANGED <<nextIdx, rlLog, sinkVars>>

\* readLoop: s.conn.Read returned an error that is not a timeout while ctx
\* is not done: return
ReadLoopReadError ==
    /\ rl.pc = "read"
    /\ ~sink[rlSink].cancelled
    /\ rl' = [NoReadLoop EXCEPT !.pc = "stopped"]
    /\ UNCHANGED <<nextIdx, rlLog, sinkVars>>

\* No datagram in hand yet
NoTry == [snap |-> <<>>, first |-> 0, tried |-> <<>>, got |-> Nil, done |-> FALSE]
TryIdle == rlTry = NoTry

\* The read loop's steps, with the record of the datagram in hand
TryRead ==
    /\ ReadLoopRead
    /\ rlTry' = IF rl'.pc = "write"
                  THEN [snap |-> rl'.snap, first |-> rl'.idx, tried |-> <<>>,
                        got |-> Nil, done |-> FALSE]
                  ELSE rlTry
TryWriteOK ==
    /\ ReadLoopWriteOK
    /\ rlTry' = [rlTry EXCEPT !.tried = Append(@, WriteTarget),
                              !.got = WriteTarget, !.done = TRUE]
TryWriteFail ==
    /\ ReadLoopWriteFail
    /\ rlTry' = [rlTry EXCEPT !.tried = Append(@, WriteTarget),
                              !.done = (rl'.pc = "read")]

\* C32: when the write to the selected subscriber fails the read loop writes
\* to the following subscribers of the array in order, wrapping round, and
\* stops at the first write that succeeds: no subscriber is written to
\* twice, the datagram goes to at most one subscriber (the last one tried),
\* and it is given up only after every subscriber's write has failed.
C32_RetryEachOnce ==
    LET snap == rlTry.snap
        n == Len(snap)
        t == rlTry.tried
    IN  /\ Len(t) <= n
        /\ \A j \in 1..Len(t) : t[j] = snap[((rlTry.first + j - 1) % n) + 1]
        /\ \A i, j \in 1..Len(t) : i # j => t[i] # t[j]
        /\ rlTry.got # Nil => (rlTry.done /\ rlTry.got = t[Len(t)])
        /\ \A j \in 1..(Len(t) - 1) : t[j] # rlTry.got
        /\ (rlTry.done /\ rlTry.got = Nil) => Len(t) = n
        /\ rlTry.done = (rl.pc # "write" /\ n > 0)

\* C32 witness: two writes failed, the third subscriber got the datagram,
\* and the tries wrapped round the end of the array
C32_DeliveredAfterWrap ==
    /\ rlTry.done /\ rlTry.got # Nil
    /\ Len(rlTry.tried) = 3
    /\ rlTry.first + 3 > Len(rlTry.snap)

\* The last n datagrams were all read while the subscriber array was the
\* same array of n streams, and each was written without a write error.
CleanRound(n) ==
    /\ n >= 1
    /\ rlLog.n = n
    /\ Len(rlLog.to) >= n

\* C17: with a fixed set of n subscribed streams on a sink and no write
\* errors, any n consecutive datagrams read from the sink's socket are
\* written to n distinct subscribers.
C17_RoundRobinDistinct ==
    \A n \in 1..NHandlers :
        CleanRound(n) =>
            \A j1, j2 \in (Len(rlLog.to) - n + 1)..Len(rlLog.to) :
                j1 # j2 => rlLog.to[j1] # rlLog.to[j2]

\* C17 witness: three datagrams in a row went to three subscribers of an
\* unchanged array of three streams, after the counter had passed a
\* multiple of three.
C17_FullRoundOfThree ==
    /\ CleanRound(3)
    /\ nextIdx > 3
    /\ Cardinality({rlLog.to[j] : j \in (Len(rlLog.to) - 2)..Len(rlLog.to)}) = 3
\* ------------------------------------------------------------------------
\* Server shared-UDP sink: properties
\* ------------------------------------------------------------------------

\* The sockets currently open to target t.
OpenSockets(t) == {s \in SinkIds : sink[s].sock = "open" /\ sink[s].addr = t}

\* A handler is attached to the sink it holds from the return of getOrCreate
\* until its deferred release starts.
Attached(h) == hpc[h] \in {"addLoad", "addCAS", "loop", "rmLoad", "rmCAS"}

\* The handlers whose addStream on sink s has returned and whose
\* removeStream has not
Subscribed(s) ==
    {h \in Handlers : hshared[h] = s /\ hpc[h] \in {"loop", "rmLoad", "rmCAS"}}

\* C31: no addStream or removeStream on a sink is lost, however the calls
\* interleave: at any time (and so once all calls have returned) the
\* subscriber array of a sink holds exactly the streams whose addStream has
\* returned and whose removeStream has not, each once.
C31_NoLostSubscriberUpdate ==
    \A s \in SinkIds :
        /\ {sink[s].streams[j] : j \in 1..Len(sink[s].streams)} = Subscribed(s)
        /\ \A i, j \in 1..Len(sink[s].streams) :
               i # j => sink[s].streams[i] # sink[s].streams[j]

\* C31 witness: all calls have returned; a stream accepted later stands
\* before one accepted earlier (their addStream calls overlapped), and a
\* third stream of the sink has been removed.
C31_RacedAddsAndRemove ==
    \E s \in SinkIds : \E h1, h2, h3 \in Handlers :
        /\ h1 < h2
        /\ sink[s].streams = <<h2, h1>>
        /\ hshared[h3] = s /\ hpc[h3] \in {"relDec", "relDelete", "relCancel", "relClose", "done"}
        /\ \A h \in Handlers : hpc[h] \notin {"addLoad", "addCAS", "rmLoad", "rmCAS"}

\* C30: while the sink is registered with a reference count above 0 its
\* read loop is running, and a read loop that stopped did so because the
\* sink was released (its context cancelled), never on a read error.
C30_ReadLoopRunsWhileReferenced ==
    /\ (conns[sink[rlSink].addr] = rlSink /\ sink[rlSink].refCount > 0) =>
           rl.pc \in {"read", "write"}
    /\ rl.pc = "stopped" => sink[rlSink].cancelled

\* C2: at any time at most one UDP socket is open to a given target address,
\* under any interleaving of getOrCreate and release.
C2_AtMostOneSocketPerTarget ==
    \A t \in Targets : Cardinality(OpenSockets(t)) <= 1

\* C18: a UDP stream whose target port is 53 is never attached to a shared
\* sink: its handler holds no sharedUDPConn, is in no sink's subscriber
\* array, no sink is registered or dialled for its target, and while it
\* serves it has a socket of its own.
C18_DNSNeverShared ==
    \A h \in Handlers :
        (hpc[h] # "accept" /\ PortOf(haddr[h]) = 53) =>
            /\ hshared[h] = Nil
            /\ \A s \in SinkIds :
                   /\ \A j \in 1..Len(sink[s].streams) : sink[s].streams[j] # h
                   /\ sink[s].addr # haddr[h]
            /\ conns[haddr[h]] = Nil
            /\ hpc[h] = "direct" => hdirect[h] = "open"
            /\ hpc[h] \in {"direct", "done"}

\* C18 witness: two streams for the DNS target are served at the same time,
\* each on its own socket, while another stream is attached to a shared sink.
C18_TwoDNSStreamsOwnSockets ==
    \E h1, h2, h3 \in Handlers :
        /\ h1 # h2
        /\ hpc[h1] = "direct" /\ hpc[h2] = "direct"
        /\ PortOf(haddr[h1]) = 53 /\ PortOf(haddr[h2]) = 53
        /\ hdirect[h1] = "open" /\ hdirect[h2] = "open"
        /\ hpc[h3] = "loop"

\* C3: the socket of a sink is closed exactly when its last attached handler
\* releases it: while a handler is attached the socket stays open, and a
\* reference count that reached 0 ends with the read loop cancelled, the
\* socket closed and the registry entry of the target removed.
C3_ClosedExactlyAtLastRelease ==
    /\ \A h \in Handlers : Attached(h) => sink[hshared[h]].sock = "open"
    /\ \A s \in SinkIds :
          sink[s].sock = "closed" =>
              sink[s].cancelled /\ conns[sink[s].addr] # s

\* C29: a handler that obtained a sink from getOrCreate and has not yet
\* started its own release holds an open socket, and the sink it holds is
\* the registered entry of its target, whatever the other handlers do.
C29_HeldSinkOpenAndRegistered ==
    \A h \in Handlers :
        (hshared[h] # Nil /\ hpc[h] \in {"addLoad", "addCAS", "loop", "rmLoad", "rmCAS", "relDec"}) =>
            /\ sink[hshared[h]].sock = "open"
            /\ conns[haddr[h]] = hshared[h]

\* ------------------------------------------------------------------------
\* BPF compiler (pure-Go classic BPF for AF_PACKET)
\* ------------------------------------------------------------------------

\* Ethernet/IP constants of the compiler
ethOffsetType == 12
ethHeaderLen  == 14
etherTypeIPv4 == 2048       \* 0x0800
etherTypeIPv6 == 34525      \* 0x86dd
ipProtoTCP    == 6
ipv6HeaderLen == 40

\* A 32-bit word is the pair of its 16-bit halves <<high, low>>.
U32(v) == <<v \div 65536, v % 65536>>
retAccept == <<65535, 65535>>   \* 0xffffffff
retReject == U32(0)

RECURSIVE And16(_, _, _)
\* Bitwise AND of the low n bits of a and b
And16(a, b, n) ==
    IF n = 0 THEN 0
    ELSE 2 * And16(a \div 2, b \div 2, n - 1) + (a % 2) * (b % 2)

AndW(a, b) == <<And16(a[1], b[1], 16), And16(a[2], b[2], 16)>>
\* a * k and a + b modulo 2^32, for a small constant k
MulW(a, k) == <<(a[1] * k + (a[2] * k) \div 65536) % 65536, (a[2] * k) % 65536>>
AddW(a, b) == <<(a[1] + b[1] + (a[2] + b[2]) \div 65536) % 65536,
                (a[2] + b[2]) % 65536>>
\* A word used as a frame offset; anything from 2^16 up is past every frame.
Off(w) == IF w[1] = 0 THEN w[2] ELSE 65536

\* One classic-BPF instruction: operation, constant K, jump offsets.
Ins(op, k, jt, jf) == [op |-> op, k |-> U32(k), jt |-> jt, jf |-> jf]

Ret(w) == [op |-> "RET_K", k |-> w, jt |-> 0, jf |-> 0]

\* Variant 1 (raw instructions, IPv4 and IPv6), "tcp and dst port N" and
\* "tcp and src port N": the two builders differ only in the port offset
\* inside the TCP header (2 for dst, 0 for src).
buildTCPPortFilterV1(port, off) == <<
    Ins("LDH_ABS", ethOffsetType, 0, 0),
    Ins("JEQ_K", etherTypeIPv4, 0, 7),
    Ins("LDB_ABS", ethHeaderLen + 9, 0, 0),
    Ins("JEQ_K", ipProtoTCP, 0, 14),
    Ins("LDB_ABS", ethHeaderLen, 0, 0),
    Ins("AND_K", 15, 0, 0),
    Ins("MUL_K", 4, 0, 0),
    Ins("ADD_K", ethHeaderLen, 0, 0),
    Ins("TAX", 0, 0, 0),
    Ins("LDH_IND", off, 0, 0),
    Ins("JEQ_K", port, 6, 7),
    Ins("JEQ_K", etherTypeIPv6, 0, 6),
    Ins("LDB_ABS", ethHeaderLen + 6, 0, 0),
    Ins("JEQ_K", ipProtoTCP, 0, 3),
    Ins("LDH_ABS", ethHeaderLen + ipv6HeaderLen + off, 0, 0),
    Ins("JEQ_K", port, 0, 1),
    Ret(retAccept),
    Ret(retReject) >>

buildTCPDstPortFilter(port) == buildTCPPortFilterV1(port, 2)
buildTCPSrcPortFilter(port) == buildTCPPortFilterV1(port, 0)

\* Variant 1, "tcp"
buildTCPFilterV1 == <<
    Ins("LDH_ABS", ethOffsetType, 0, 0),
    Ins("JEQ_K", etherTypeIPv4, 0, 3),
    Ins("LDB_ABS", ethHeaderLen + 9, 0, 0),
    Ins("JEQ_K", ipProtoTCP, 4, 5),
    Ins("JEQ_K", etherTypeIPv6, 0, 4),
    Ins("LDB_ABS", ethHeaderLen + 6, 0, 0),
    Ins("JEQ_K", ipProtoTCP, 0, 2),
    Ret(retAccept),
    Ret(retReject) >>

\* mac[0]<<8 | mac[1]  and  binary.BigEndian.Uint32(mac[2:6])
macHigh(mac) == mac[1] * 256 + mac[2]
macLow(mac)  == <<mac[3] * 256 + mac[4], mac[5] * 256 + mac[6]>>

\* Variant 1, "ether dst MAC"
buildEtherDstFilterV1(mac) == <<
    Ins("LDH_ABS", 0, 0, 0),
    Ins("JEQ_K", macHigh(mac), 0, 4),
    Ins("LDW_ABS", 2, 0, 0),
    [Ins("JEQ_K", 0, 0, 2) EXCEPT !.k = macLow(mac)],
    Ret(retAccept),
    Ret(retReject) >>

\* Variant 2 (bpf.Assemble of high-level instructions, IPv4 only):
\* "tcp and {dst|src} port N".  SkipTrue/SkipFalse assemble to jt/jf.
buildTCPPortFilter(port, isDst) ==
    LET tcpPortOffset == IF isDst THEN 2 ELSE 0 IN <<
    Ins("LDH_ABS", ethOffsetType, 0, 0),
    Ins("JEQ_K", etherTypeIPv4, 0, 5),
    Ins("LDB_ABS", ethHeaderLen + 9, 0, 0),
    Ins("JEQ_K", ipProtoTCP, 0, 3),
    Ins("LDX_MSH", ethHeaderLen, 0, 0),
    Ins("LDH_IND", ethHeaderLen + tcpPortOffset, 0, 0),
    Ins("JEQ_K", port, 1, 0),
    Ret(retReject),
    Ret(retAccept) >>

\* Variant 2, "tcp"
buildTCPFilter == <<
    Ins("LDH_ABS", ethOffsetType, 0, 0),
    Ins("JEQ_K", etherTypeIPv4, 0, 2),
    Ins("LDB_ABS", ethHeaderLen + 9, 0, 0),
    Ins("JEQ_K", ipProtoTCP, 1, 0),
    Ret(retReject),
    Ret(retAccept) >>

\* Variant 2, "ether dst MAC"
buildEtherDstFilter(mac) == <<
    Ins("LDH_ABS", 0, 0, 0),
    Ins("JEQ_K", macHigh(mac), 0, 2),
    Ins("LDW_ABS", 2, 0, 0),
    [Ins("JEQ_K", 0, 1, 0) EXCEPT !.k = macLow(mac)],
    Ret(retReject),
    Ret(retAccept) >>

\* strconv.Atoi(portStr) succeeded with 1 <= port <= 65535
ValidPort(port) == port >= 1 /\ port <= 65535

\* compileBPFFilter: <<>> stands for the returned error.  A filter is the
\* parsed string: kind "dst"/"src" ("tcp and dst|src port N"), "tcp",
\* "ether" ("ether dst MAC") or "other" (any unsupported string).
compileBPFFilterV1(f) ==
    CASE f.kind = "dst"   -> IF ValidPort(f.port)
                               THEN buildTCPDstPortFilter(f.port) ELSE <<>>
      [] f.kind = "src"   -> IF ValidPort(f.port)
                               THEN buildTCPSrcPortFilter(f.port) ELSE <<>>
      [] f.kind = "tcp"   -> buildTCPFilterV1
      [] f.kind = "ether" -> buildEtherDstFilterV1(f.mac)
      [] OTHER            -> <<>>

compileBPFFilterV2(f) ==
    CASE f.kind = "dst"   -> IF ValidPort(f.port)
                               THEN buildTCPPortFilter(f.port, TRUE) ELSE <<>>
      [] f.kind = "src"   -> IF ValidPort(f.port)
                               THEN buildTCPPortFilter(f.port, FALSE) ELSE <<>>
      [] f.kind = "tcp"   -> buildTCPFilter
      [] f.kind = "ether" -> buildEtherDstFilter(f.mac)
      [] OTHER            -> <<>>

compileBPFFilter(variant, f) ==
    IF variant = 1 THEN compileBPFFilterV1(f) ELSE compileBPFFilterV2(f)

\* validateBPFProgram of the compiler's tests: every conditional jump lands
\* inside the program and the last instruction is a RET.
validateBPFProgram(prog) ==
    \/ Len(prog) = 0
    \/ /\ \A i \in 1..Len(prog) :
            prog[i].op = "JEQ_K" =>
                /\ (i - 1) + 1 + prog[i].jt < Len(prog)
                /\ (i - 1) + 1 + prog[i].jf < Len(prog)
       /\ prog[Len(prog)].op = "RET_K"

\* --- frames -------------------------------------------------------------

\* Offset of the TCP header in a frame: after the IPv4 header of IHL words,
\* after the fixed IPv6 header, or (other EtherTypes) where an option-less
\* IPv4 header would end.
TCPOffset(fr) ==
    IF fr.etherType = etherTypeIPv4 THEN ethHeaderLen + 4 * fr.ihl
    ELSE IF fr.etherType = etherTypeIPv6 THEN ethHeaderLen + ipv6HeaderLen
    ELSE ethHeaderLen + 20

Hi(v) == v \div 256
Lo(v) == v % 256

\* The byte of frame fr at offset off (off < fr.len).
FrameByte(fr, off) ==
    LET t == TCPOffset(fr) IN
    CASE off < 6   -> fr.dst[off + 1]
      [] off = 12  -> Hi(fr.etherType)
      [] off = 13  -> Lo(fr.etherType)
      [] off = 14  -> IF fr.etherType = etherTypeIPv4 THEN 64 + fr.ihl
                      ELSE IF fr.etherType = etherTypeIPv6 THEN 96 ELSE 0
      [] off = 20 /\ fr.etherType # etherTypeIPv4 -> fr.proto
      [] off = 23 /\ fr.etherType # etherTypeIPv6 -> fr.proto
      [] off = t      -> Hi(fr.srcPort)
      [] off = t + 1  -> Lo(fr.srcPort)
      [] off = t + 2  -> Hi(fr.dstPort)
      [] off = t + 3  -> Lo(fr.dstPort)
      [] off >= 34 /\ off < 38 /\ off < t ->
             \* IPv4 options, where an IHL of 5 would put the TCP ports
             IF off % 2 = 0 THEN Hi(fr.opt) ELSE Lo(fr.opt)
      [] OTHER -> 0

\* Big-endian half word at off, and the word of the n bytes at off
Half(fr, off) == FrameByte(fr, off) * 256 + FrameByte(fr, off + 1)
LoadBytes(fr, off, n) ==
    CASE n = 1 -> <<0, FrameByte(fr, off)>>
      [] n = 2 -> <<0, Half(fr, off)>>
      [] n = 4 -> <<Half(fr, off), Half(fr, off + 2)>>

\* --- the in-kernel interpreter -------------------------------------------

\* How far the filter has got: "none" (still running), "error" (the compiler
\* returned an error), "fault" (control left the program) or "ret" with the
\* returned word.
Outcome(o) == [st |-> o, k |-> U32(0)]
Returned(w) == [st |-> "ret", k |-> w]

\* One step of the classic-BPF machine on st = [pc, A, X, result].  A load
\* past the end of the frame ends the program with 0; an instruction index
\* outside the program is a fault (the kernel refuses to attach such a
\* program).
LoadInto(st, fr, off, n) ==
    IF off + n > fr.len
      THEN [st EXCEPT !.result = Returned(retReject)]
      ELSE [st EXCEPT !.A = LoadBytes(fr, off, n), !.pc = @ + 1]

BPFExec(prog, fr, st) ==
    IF st.pc >= Len(prog) THEN [st EXCEPT !.result = Outcome("fault")]
    ELSE LET in == prog[st.pc + 1] IN
      CASE in.op = "LDH_ABS" -> LoadInto(st, fr, Off(in.k), 2)
        [] in.op = "LDB_ABS" -> LoadInto(st, fr, Off(in.k), 1)
        [] in.op = "LDW_ABS" -> LoadInto(st, fr, Off(in.k), 4)
        [] in.op = "LDH_IND" -> LoadInto(st, fr, Off(AddW(st.X, in.k)), 2)
        [] in.op = "LDX_MSH" ->
               IF Off(in.k) + 1 > fr.len
                 THEN [st EXCEPT !.result = Returned(retReject)]
                 ELSE [st EXCEPT !.X = U32(4 * (FrameByte(fr, Off(in.k)) % 16)),
                                 !.pc = @ + 1]
        [] in.op = "AND_K" -> [st EXCEPT !.A = AndW(@, in.k), !.pc = @ + 1]
        [] in.op = "MUL_K" -> [st EXCEPT !.A = MulW(@, in.k[2]), !.pc = @ + 1]
        [] in.op = "ADD_K" -> [st EXCEPT !.A = AddW(@, in.k), !.pc = @ + 1]
        [] in.op = "TAX"   -> [st EXCEPT !.X = st.A, !.pc = @ + 1]
        [] in.op = "JEQ_K" ->
               [st EXCEPT !.pc = @ + 1 + (IF st.A = in.k THEN in.jt ELSE in.jf)]
        [] in.op = "RET_K" -> [st EXCEPT !.result = Returned(in.k)]

\* --- inputs ---------------------------------------------------------------

BPFPorts == {1, 443, 65535}
BadPorts == {0, 65536}
MACs == { <<170, 187, 204, 221, 238, 255>>, <<2, 0, 0, 0, 0, 1>> }

Filters ==
    [kind : {"dst", "src"}, port : BPFPorts \cup BadPorts, mac : {<<>>}]
    \cup [kind : {"tcp", "other"}, port : {0}, mac : {<<>>}]
    \cup [kind : {"ether"}, port : {0}, mac : MACs]

\* EtherType 0x0806 is ARP, protocol 17 is UDP.
Frames ==
    [dst : MACs, etherType : {etherTypeIPv4, etherTypeIPv6, 2054},
     proto : {ipProtoTCP, 17}, ihl : {5, 6},
     srcPort : {443, 65535}, dstPort : {1, 443}, opt : {0, 443},
     len : {20, 64}]

NoFilter == [kind |-> "other", port |-> 0, mac |-> <<>>]
NoFrame  == [dst |-> <<0, 0, 0, 0, 0, 0>>, etherType |-> 0, proto |-> 0,
             ihl |-> 5, srcPort |-> 0, dstPort |-> 0, opt |-> 0, len |-> 0]

\* The BPF machine before a filter is compiled.
BPFState0 ==
    /\ bpfProg = <<>>
    /\ bpfPc = 0
    /\ bpfA = U32(0)
    /\ bpfX = U32(0)
    /\ bpfResult = Outcome("none")

\* Not in use (the other specifications).
BPFIdle ==
    /\ bpfVariant = 2
    /\ bpfFilter = NoFilter
    /\ bpfFrame = NoFrame
    /\ BPFState0

\* A filter string handed to SetBPFFilter and a frame arriving on the socket.
BPFInit ==
    /\ bpfVariant \in {1, 2}
    /\ bpfFilter \in Filters
    /\ bpfFrame \in Frames
    /\ BPFState0

\* afpacketHandle.SetBPFFilter: compile the filter.
BPFCompile ==
    /\ bpfResult = Outcome("none")
    /\ bpfProg = <<>>
    /\ LET prog == compileBPFFilter(bpfVariant, bpfFilter) IN
        /\ bpfProg' = prog
        /\ bpfResult' = IF prog = <<>> THEN Outcome("error") ELSE Outcome("none")
    /\ UNCHANGED <<bpfVariant, bpfFilter, bpfFrame, bpfPc, bpfA, bpfX>>

\* The socket filter runs one instruction on the frame.
BPFRun ==
    /\ bpfResult = Outcome("none")
    /\ bpfProg # <<>>
    /\ LET st == BPFExec(bpfProg, bpfFrame,
                         [pc |-> bpfPc, A |-> bpfA, X |-> bpfX,
                          result |-> Outcome("none")]) IN
        /\ bpfPc' = st.pc
        /\ bpfA' = st.A
        /\ bpfX' = st.X
        /\ bpfResult' = st.result
    /\ UNCHANGED <<bpfVariant, bpfFilter, bpfFrame, bpfProg>>

\* ------------------------------------------------------------------------
\* BPF compiler: properties
\* ------------------------------------------------------------------------

\* C7: for every supported filter string every jump of the emitted program
\* targets an instruction inside the program, every execution reaches a RET
\* (it never runs off the program) and the last instruction is a RET.
C7_ProgramWellFormed ==
    bpfProg # <<>> =>
        /\ validateBPFProgram(bpfProg)
        /\ bpfPc < Len(bpfProg)
        /\ bpfResult.st # "fault"

\* The frame is IPv4-TCP (TCP header located by the IHL) or IPv6-TCP and is
\* long enough to hold the TCP ports.
IsTCPFrame(fr) ==
    /\ fr.etherType \in {etherTypeIPv4, etherTypeIPv6}
    /\ fr.proto = ipProtoTCP
    /\ fr.len >= TCPOffset(fr) + 4

\* C8: the program for "tcp and dst port N" (likewise "tcp and src port N")
\* returns 0xffffffff for exactly the IPv4-TCP or IPv6-TCP frames whose port
\* is N, and 0 for every other frame.
C8_AcceptsExactlyTCPPort ==
    (bpfFilter.kind \in {"dst", "src"} /\ bpfProg # <<>> /\ bpfResult.st # "none")
      => LET port == IF bpfFilter.kind = "dst" THEN bpfFrame.dstPort
                     ELSE bpfFrame.srcPort
             want == IsTCPFrame(bpfFrame) /\ port = bpfFilter.port
         IN bpfResult = Returned(IF want THEN retAccept ELSE retReject)

\* ------------------------------------------------------------------------
\* Packet endpoint (socket.PacketConn): New, ReadFrom, Close, the iptables
\* guard and the raw handles
\* ------------------------------------------------------------------------

NEndpoints == 2     \* endpoints opened on the interface
MaxTicks   == 3     \* clocks count up to this many 100 ms ticks

\* Durations in 100 ms ticks
closeWaitTicks   == 5   \* time.After(500 * time.Millisecond) in Close
pollTimeoutTicks == 2   \* "AF_PACKET uses a 200ms poll timeout"

Endpoints == 1..NEndpoints
Ports     == {443, 8443}
RuleKinds == {"raw/PREROUTING", "raw/OUTPUT", "mangle/OUTPUT"}
Rules     == RuleKinds \X Ports

\* newIptablesGuard(port).rules
GuardRules(port) == RuleKinds \X {port}

NoConn == [state |-> "none", port |-> 0, installed |-> {}, cancelled |-> FALSE,
           closePc |-> "idle", waited |-> "none", hclosed |-> FALSE,
           removed |-> FALSE, ctimer |-> 0,
           rpc |-> "idle", rwait |-> 0, got |-> 0]

NoShared == [exists |-> FALSE, refCount |-> 0, filter |-> 0]

\* Before any endpoint is opened.  The administrator may already have put
\* the NOTRACK rule for port 443 in place.
\* PacketConn.ReadFrom, for any raw handle: readers, errors a handle returns
NReaders == 2       \* goroutines calling ReadFrom on the PacketConn
MaxPolls == 2       \* poll timeouts of one ReadFrom call are counted up to this
Readers == 1..NReaders
HandleErrors == {"EBADF", "ENETDOWN"}
NoRead == [pc |-> "idle", polls |-> 0, last |-> "none", result |-> "none"]

\* After socket.New: no ReadFrom call yet, the context is live and no read
\* deadline is set.
ReadIdle ==
    /\ rd = [r \in Readers |-> NoRead]
    /\ rdCtxDone = FALSE
    /\ rdDeadline = "none"
SockState0 ==
    /\ ep = [e \in Endpoints |-> NoConn]
    /\ sharedHandles = NoShared
    /\ ring = [h \in 0..NEndpoints |-> <<>>]

SockIdle ==
    /\ backend = "afpacket"
    /\ ipt = [r \in Rules |-> 0]
    /\ SockState0
    /\ ReadIdle

SockInit ==
    /\ backend \in {"afpacket", "pcap"}
    /\ \E pre \in {{}, {<<"raw/PREROUTING", 443>>}} :
           ipt = [r \in Rules |-> IF r \in pre THEN 1 ELSE 0]
    /\ SockState0
    /\ ReadIdle

\* iptablesGuard.Install: a rule that "-C" finds is skipped, any other is
\* inserted with "-I", which works (iptOK) or fails with a warning.  The
\* result is the set of rules this guard inserted.
Inserted(port, iptOK) ==
    {r \in GuardRules(port) : ipt[r] = 0 /\ iptOK}

Install(port, iptOK) ==
    [r \in Rules |-> IF r \in Inserted(port, iptOK) THEN ipt[r] + 1 ELSE ipt[r]]

\* iptablesGuard.Remove: "-D" for every rule of the guard; a rule that is
\* not there makes iptables fail, which is ignored.
Remove(table, port) ==
    [r \in Rules |-> IF r \in GuardRules(port) /\ table[r] > 0
                       THEN table[r] - 1 ELSE table[r]]

\* The frame of a TCP segment for dst port d (IPv4, no options).
FrameTo(d) ==
    [dst |-> <<2, 0, 0, 0, 0, 1>>, etherType |-> etherTypeIPv4,
     proto |-> ipProtoTCP, ihl |-> 5, srcPort |-> 443, dstPort |-> d,
     opt |-> 0, len |-> 64]

RECURSIVE BPFRunAll(_, _, _)
\* The socket filter run to its end on a frame.
BPFRunAll(prog, fr, st) ==
    IF st.result.st # "none" THEN st.result
    ELSE BPFRunAll(prog, fr, BPFExec(prog, fr, st))

\* NewRecvHandle: filter := "tcp and dst port <cfg.Port>"
RecvFilter(port) == [kind |-> "dst", port |-> port, mac |-> <<>>]
RecvProgram(port) == compileBPFFilter(bpfVariant, RecvFilter(port))

\* tpacket.SetBPF attaches the program unless the kernel refuses it.
SetBPFOK(port) ==
    LET prog == RecvProgram(port) IN prog # <<>> /\ validateBPFProgram(prog)

\* The frame for dst port d passes the filter attached for port.
Passes(port, d) ==
    LET r == BPFRunAll(RecvProgram(port), FrameTo(d),
                       [pc |-> 0, A |-> U32(0), X |-> U32(0),
                        result |-> Outcome("none")])
    IN r.st = "ret" /\ r.k # retReject

\* socket.New(ctx, cfg) for endpoint e with cfg.Port = port: Install the
\* guard, open the raw handle (handleOK: the interface can be opened), set
\* direction and filter for receiving.  A failure after Install removes the
\* guard's rules again.
New(e, port, iptOK, handleOK) ==
    /\ ep[e].state = "none"
    /\ \A o \in 1..(e - 1) : ep[o].state # "none"   \* numbered as they open
    /\ LET installed == Inserted(port, iptOK)
           table == Install(port, iptOK)
           filterOK == backend = "pcap" \/ SetBPFOK(port)
           ok == handleOK /\ filterOK
       IN
        /\ (sharedHandles.exists /\ backend = "afpacket") => handleOK
        /\ ipt' = IF ok THEN table ELSE Remove(table, port)
        /\ ep' = [ep EXCEPT ![e] =
                    [@ EXCEPT !.state = IF ok THEN "open" ELSE "failed",
                              !.port = port,
                              !.installed = installed]]
        /\ sharedHandles' =
              IF backend = "afpacket" /\ handleOK
                \* newAfpacketHandle, and on a filter error handle.Close()
                THEN [exists |-> TRUE,
                      refCount |-> sharedHandles.refCount
                                     + (IF filterOK THEN 1 ELSE 0),
                      filter |-> IF filterOK THEN port
                                 ELSE sharedHandles.filter]
                ELSE sharedHandles
        /\ UNCHANGED <<backend, ring>>

\* The ring endpoint e's raw handle reads from: the interface's shared
\* TPacket for AF_PACKET, the endpoint's own capture handle for pcap.
RingOf(e) == IF backend = "afpacket" THEN 0 ELSE e

\* readWg: the ReadFrom calls of endpoint e between Add(1) and Done()
ActiveReaders(e) == IF ep[e].rpc \in {"added", "blocked"} THEN 1 ELSE 0

\* A frame for dst port d arrives on the interface.  The kernel queues it
\* on every socket whose filter it passes: the shared TPacket carries the
\* filter of the last SetBPFFilter, each pcap handle its own.
FrameArrives(d) ==
    /\ ring' = [h \in 0..NEndpoints |->
                 IF ring[h] # <<>> THEN ring[h]
                 ELSE IF h = 0
                   THEN IF backend = "afpacket" /\ sharedHandles.exists
                           /\ sharedHandles.filter # 0
                           /\ Passes(sharedHandles.filter, d)
                          THEN <<d>> ELSE <<>>
                   ELSE IF backend = "pcap" /\ ep[h].state = "open"
                           /\ ~ep[h].hclosed /\ ep[h].port = d
                          THEN <<d>> ELSE <<>>]
    /\ ring' # ring
    /\ UNCHANGED <<backend, ipt, ep, sharedHandles>>

\* PacketConn.ReadFrom, first select (the context is not cancelled) and
\* c.readWg.Add(1).
ReadFromEnter(e) ==
    /\ ep[e].state = "open"
    /\ ep[e].rpc = "idle"
    /\ ~ep[e].cancelled
    /\ ep' = [ep EXCEPT ![e].rpc = "added"]
    /\ UNCHANGED <<backend, ipt, sharedHandles, ring>>

\* The select at the head of the loop: return on a cancelled context, else
\* call c.recvHandle.Read().  (No read deadline is set.)
ReadFromLoop(e) ==
    /\ ep[e].rpc = "added"
    /\ ep' = [ep EXCEPT ![e].rpc = IF ep[e].cancelled THEN "idle" ELSE "blocked",
                        ![e].rwait = 0]
    /\ UNCHANGED <<backend, ipt, sharedHandles, ring>>

\* recvHandle.Read returns the next frame of the ring; ReadFrom copies its
\* payload out and returns.  got is the dst port of that frame.
ReadFromFrame(e) ==
    /\ ep[e].rpc = "blocked"
    /\ ring[RingOf(e)] # <<>>
    /\ backend = "pcap" => ~ep[e].hclosed
    /\ ep' = [ep EXCEPT ![e].rpc = "idle", ![e].rwait = 0,
                        ![e].got = Head(ring[RingOf(e)])]
    /\ ring' = [ring EXCEPT ![RingOf(e)] = Tail(@)]
    /\ UNCHANGED <<backend, ipt, sharedHandles>>

\* pcap: closing the capture handle makes the blocked read return an error,
\* which ReadFrom returns.  (afpacketHandle.Close leaves the TPacket open.)
ReadFromClosed(e) ==
    /\ ep[e].rpc = "blocked"
    /\ backend = "pcap"
    /\ ep[e].hclosed
    /\ ep' = [ep EXCEPT ![e].rpc = "idle", ![e].rwait = 0]
    /\ UNCHANGED <<backend, ipt, sharedHandles, ring>>

\* PacketConn.Close: c.cancel()
CloseCancel(e) ==
    /\ ep[e].state = "open"
    /\ ep[e].closePc = "idle"
    /\ ep' = [ep EXCEPT ![e].cancelled = TRUE, ![e].closePc = "wait",
                        ![e].ctimer = 0]
    /\ UNCHANGED <<backend, ipt, sharedHandles, ring>>

\* case <-ch: readWg.Wait() returned, every active reader has left
CloseWaitReaders(e) ==
    /\ ep[e].closePc = "wait"
    /\ ActiveReaders(e) = 0
    /\ ep' = [ep EXCEPT ![e].closePc = "close", ![e].waited = "readers",
                        ![e].ctimer = 0]
    /\ UNCHANGED <<backend, ipt, sharedHandles, ring>>

\* case <-time.After(500 * time.Millisecond)
CloseWaitTimeout(e) ==
    /\ ep[e].closePc = "wait"
    /\ ep[e].ctimer >= closeWaitTicks
    /\ ep' = [ep EXCEPT ![e].closePc = "close", ![e].waited = "timeout",
                        ![e].ctimer = 0]
    /\ UNCHANGED <<backend, ipt, sharedHandles, ring>>

\* A Close that closes the raw handle first, while readers may still be in
\* the ring buffer and before the context is cancelled.
CloseHandleFirst(e) ==
    /\ ep[e].state = "open"
    /\ ep[e].closePc = "idle"
    /\ ~ep[e].hclosed
    /\ ep' = [ep EXCEPT ![e].hclosed = TRUE]
    /\ UNCHANGED <<backend, ipt, sharedHandles, ring>>

\* c.handle.Close(): afpacketHandle.Close only drops the reference count,
\* pcapHandle.Close closes the capture handle.
CloseHandle(e) ==
    /\ ep[e].closePc = "close"
    /\ ep' = [ep EXCEPT ![e].closePc = "join", ![e].hclosed = TRUE]
    /\ sharedHandles' = IF backend = "afpacket"
                          THEN [sharedHandles EXCEPT !.refCount = @ - 1]
                          ELSE sharedHandles
    /\ ring' = IF backend = "pcap" THEN [ring EXCEPT ![e] = <<>>] ELSE ring
    /\ UNCHANGED <<backend, ipt>>

\* <-ch: wait for the readers to finish
CloseJoin(e) ==
    /\ ep[e].closePc = "join"
    /\ ActiveReaders(e) = 0
    /\ ep' = [ep EXCEPT ![e].closePc = "remove"]
    /\ UNCHANGED <<backend, ipt, sharedHandles, ring>>

\* c.iptGuard.Remove(); return nil
CloseRemove(e) ==
    /\ ep[e].closePc = "remove"
    /\ ipt' = Remove(ipt, ep[e].port)
    /\ ep' = [ep EXCEPT ![e].closePc = "done", ![e].removed = TRUE,
                        ![e].state = "closed"]
    /\ UNCHANGED <<backend, sharedHandles, ring>>

\* A reader of e sits in the raw read with nothing to read.
ReaderWaits(e) ==
    /\ ep[e].rpc = "blocked"
    /\ ring[RingOf(e)] = <<>>
    /\ ~(backend = "pcap" /\ ep[e].hclosed)

\* Close of e sits in its timed wait for the readers.
CloseWaits(e) ==
    /\ ep[e].closePc = "wait"
    /\ ActiveReaders(e) # 0

Bump(n) == IF n < MaxTicks THEN n + 1 ELSE n

\* 100 ms pass.  Only what is waiting ages; the 500 ms timer of Close fires
\* before more time passes.
Tick ==
    /\ \A e \in Endpoints :
          ep[e].closePc = "wait" => ep[e].ctimer < closeWaitTicks
    /\ ep' = [e \in Endpoints |->
               [ep[e] EXCEPT !.rwait = IF ReaderWaits(e) THEN Bump(@) ELSE @,
                             !.ctimer = IF CloseWaits(e) THEN @ + 1 ELSE @]]
    /\ ep' # ep
    /\ UNCHANGED <<backend, ipt, sharedHandles, ring>>

\* ------------------------------------------------------------------------
\* Packet endpoint: properties
\* ------------------------------------------------------------------------

\* C4: closing an endpoint removes exactly the guard rules that endpoint
\* installed: the step of Close that removes the rules takes one copy of
\* each rule the endpoint's Install inserted out of the kernel's table and
\* leaves every other rule, a rule Install skipped because it was already
\* there included, as it was.
C4_CloseRemovesOnlyInstalled ==
    [][\A e \in Endpoints :
         (ep[e].closePc = "remove" /\ ep'[e].closePc = "done") =>
            \A r \in Rules :
               ipt'[r] = ipt[r] - (IF r \in ep[e].installed THEN 1 ELSE 0)]_vars

\* C5: Close proceeds in the order cancel the context, wait for the active
\* readers to leave or for 500 ms, close the raw handle, remove the guard
\* rules: the handle is never closed before the context is cancelled and
\* the wait is over, and the rules are never removed before the handle is
\* closed.
C5_CloseOrder ==
    \A e \in Endpoints :
        /\ ep[e].hclosed => (ep[e].cancelled /\ ep[e].waited # "none")
        /\ ep[e].removed => ep[e].hclosed

\* C5 witness: a Close that gave up waiting for a reader after 500 ms, closed
\* the handle, and then removed the rules.
C5_ClosedAfterTimeout ==
    \E e \in Endpoints :
        /\ ep[e].closePc = "done"
        /\ ep[e].waited = "timeout"
        /\ ep[e].removed

\* C6: an AF_PACKET raw-handle read blocks for at most one poll timeout (200 ms), so
\* that a ReadFrom waiting when Close cancels the context has left, and
\* Close is past its final wait for the readers, within that time even if
\* no frame ever arrives.
C6_ReadBlocksAtMostPollTimeout ==
    backend = "afpacket" =>
        \A e \in Endpoints : ep[e].rwait <= pollTimeoutTicks

\* C9: with several endpoints open on the interface, each with its own
\* port, every frame an endpoint reads was sent to that endpoint's port.
C9_ReadsOnlyOwnPort ==
    (\A e, o \in Endpoints :
        (e # o /\ ep[e].state # "none" /\ ep[o].state # "none")
            => ep[e].port # ep[o].port)
    => \A e \in Endpoints : ep[e].got # 0 => ep[e].got = ep[e].port

\* ------------------------------------------------------------------------
\* PacketConn.ReadFrom: the retry loop around recvHandle.Read
\* ------------------------------------------------------------------------

\* ReadFrom's first select: a cancelled context returns c.ctx.Err();
\* otherwise c.readWg.Add(1) and the loop is entered.
ReadFromSelect(r) ==
    /\ rd[r].pc \in {"idle", "ret"}
    /\ rd' = [rd EXCEPT ![r] =
                IF rdCtxDone THEN [NoRead EXCEPT !.pc = "ret", !.result = "ctx"]
                ELSE [NoRead EXCEPT !.pc = "loop"]]
    /\ UNCHANGED <<rdCtxDone, rdDeadline>>

\* The head of the loop: select on c.ctx.Done(), then checkDeadline: return
\* c.ctx.Err() or os.ErrDeadlineExceeded, else call c.recvHandle.Read().
ReadFromCheck(r) ==
    /\ rd[r].pc = "loop"
    /\ rd' = [rd EXCEPT ![r].pc = IF rdCtxDone \/ rdDeadline = "past"
                                    THEN "ret" ELSE "read",
                        ![r].result = IF rdCtxDone THEN "ctx"
                                      ELSE IF rdDeadline = "past" THEN "deadline"
                                      ELSE "none"]
    /\ UNCHANGED <<rdCtxDone, rdDeadline>>

\* c.recvHandle.Read() returned a payload: n = copy(data, payload); return
ReadFromPayload(r) ==
    /\ rd[r].pc = "read"
    /\ rd' = [rd EXCEPT ![r].pc = "ret", ![r].last = "payload",
                        ![r].result = "payload"]
    /\ UNCHANGED <<rdCtxDone, rdDeadline>>

\* TCP payload lengths of the frames the handle delivers
FramePayloads == {0, 1, 1400}
readFromBuf == 65536    \* buf := make([]byte, 65536) of the ReadFrom callers

\* RecvHandle.Read for a frame with payloadLen bytes of TCP payload: the
\* length of the slice it returns (nil for an empty payload) with a nil error
RecvRead(payloadLen) == IF payloadLen = 0 THEN 0 ELSE payloadLen

\* copy(dst, src): the number of bytes copied
CopyLen(dstLen, srcLen) == IF srcLen < dstLen THEN srcLen ELSE dstLen

ReadNIdle == rdN = [r \in Readers |-> -1]

\* ReadFrom: c.recvHandle.Read() returned the payload of a frame with a nil
\* error: n = copy(data, payload); return n, addr, nil
ReadFromCopy(r, payloadLen) ==
    /\ ReadFromPayload(r)
    /\ rdN' = [rdN EXCEPT ![r] = CopyLen(readFromBuf, RecvRead(payloadLen))]

\* C40: a frame with an empty TCP payload is dropped by the receive path:
\* a ReadFrom that returns a datagram to the transport never returns one of
\* length 0.
C40_EmptyPayloadDropped ==
    \A r \in Readers : rd[r].result = "payload" => rdN[r] > 0

\* c.recvHandle.Read() returned errPollTimeout: continue
ReadFromPollTimeoutReturned(r) ==
    /\ rd[r].pc = "read"
    /\ rd' = [rd EXCEPT ![r].pc = "ret", ![r].last = "errPollTimeout",
                        ![r].result = "errPollTimeout",
                        ![r].polls = IF @ < MaxPolls THEN @ + 1 ELSE @]
    /\ UNCHANGED <<rdCtxDone, rdDeadline>>
ReadFromPollTimeout(r) ==
    /\ rd[r].pc = "read"
    /\ rd' = [rd EXCEPT ![r].pc = "loop", ![r].last = "errPollTimeout",
                        ![r].polls = IF @ < MaxPolls THEN @ + 1 ELSE @]
    /\ UNCHANGED <<rdCtxDone, rdDeadline>>

\* c.recvHandle.Read() returned another error: return 0, nil, err
ReadFromError(r, err) ==
    /\ rd[r].pc = "read"
    /\ rd' = [rd EXCEPT ![r].pc = "ret", ![r].last = err, ![r].result = err]
    /\ UNCHANGED <<rdCtxDone, rdDeadline>>

\* PacketConn.Close: c.cancel()
ReadCtxCancel ==
    /\ ~rdCtxDone
    /\ rdCtxDone' = TRUE
    /\ UNCHANGED <<rd, rdDeadline>>

\* SetReadDeadline(t) / SetDeadline(t): a time in the future, or the zero
\* time (no deadline)
SetReadDeadline(d) ==
    /\ rdDeadline # d
    /\ rdDeadline' = d
    /\ UNCHANGED <<rd, rdCtxDone>>

\* The clock reaches the read deadline.
ReadDeadlinePasses ==
    /\ rdDeadline = "future"
    /\ rdDeadline' = "past"
    /\ UNCHANGED <<rd, rdCtxDone>>

\* C19: ReadFrom never returns the poll-timeout sentinel; after a poll
\* timeout it is back at the head of its loop, from where it reads again
\* only if the context is not cancelled and the read deadline has not
\* passed, and returns the context's error or the deadline error otherwise;
\* any other error of the handle is returned as it is.
C19_PollTimeoutNotSurfaced ==
    /\ [](\A r \in Readers :
            /\ rd[r].result # "errPollTimeout"
            /\ (rd[r].pc = "ret" /\ rd[r].last \in HandleErrors)
                   => rd[r].result = rd[r].last
            /\ rd[r].result \in HandleErrors => rd[r].result = rd[r].last)
    /\ [][\A r \in Readers :
            /\ (rd[r].pc = "read" /\ rd'[r].last = "errPollTimeout"
                    /\ rd'[r] # rd[r])
                   => rd'[r].pc = "loop"
            /\ (rd[r].pc = "loop" /\ rd'[r] # rd[r]) =>
                   /\ rdCtxDone => rd'[r].pc = "ret" /\ rd'[r].result = "ctx"
                   /\ (~rdCtxDone /\ rdDeadline = "past") =>
                          rd'[r].pc = "ret" /\ rd'[r].result = "deadline"
                   /\ (~rdCtxDone /\ rdDeadline # "past") => rd'[r].pc = "read"
         ]_vars

\* C19 witness: a ReadFrom call saw two poll timeouts and then returned the
\* context's error, because Close cancelled the context while it was
\* polling.
C19_RetriedThenCancelled ==
    \E r \in Readers :
        /\ rd[r].pc = "ret"
        /\ rd[r].polls = 2
        /\ rd[r].last = "errPollTimeout"
        /\ rd[r].result = "ctx"
\* ------------------------------------------------------------------------
\* Client: the UDP stream pool, CloseUDP and the network-change handler
\* ------------------------------------------------------------------------

NCallers   == 3     \* goroutines calling Client.UDP
NStreams   == 3     \* streams newStrm opens in a run
NConns     == 1     \* len(c.iter.Items): connections of the session

Callers   == 1..NCallers
StreamIds == 1..NStreams
Conns     == 1..NConns
Keys      == {"a>x", "b>x"}    \* hash.AddrPair(lAddr, tAddr)

NoCall == [pc |-> "idle", key |-> "", own |-> Nil, ret |-> Nil,
           isNew |-> FALSE, err |-> FALSE]
MonIdle == [pc |-> "idle", snap |-> {}, visited |-> {}, key |-> "",
            value |-> Nil, atStart |-> {}, next |-> 1, taken |-> {}]
CloserIdle == [pc |-> "idle", value |-> Nil]

\* After Client.Start: every connection is up, the pool is empty.
PoolInit ==
    /\ strms = [k \in Keys |-> Nil]
    /\ stream = [s \in StreamIds |-> "none"]
    /\ sidCount = 0
    /\ caller = [c \in Callers |-> NoCall]
    /\ closer = CloserIdle
    /\ mon = MonIdle
    /\ reconnectCh = [i \in Conns |-> 0]
    /\ disturbed = [k \in Keys |-> FALSE]

\* Client.UDP: key := hash.AddrPair(lAddr, tAddr); c.udpPool.strms.Load(key)
UDPLoad(c, key) ==
    /\ caller[c].pc = "idle"
    /\ \A o \in 1..(c - 1) : caller[o].pc # "idle"   \* numbered as they call
    /\ caller' = [caller EXCEPT ![c] =
                    IF strms[key] # Nil
                      THEN [@ EXCEPT !.pc = "ret", !.key = key,
                                     !.ret = strms[key]]
                      ELSE [@ EXCEPT !.pc = "new", !.key = key]]
    /\ UNCHANGED <<strms, stream, sidCount, closer, mon, reconnectCh, disturbed>>

\* c.newStrm() returned a stream
UDPNewStrm(c) ==
    /\ caller[c].pc = "new"
    /\ sidCount < NStreams
    /\ sidCount' = sidCount + 1
    /\ stream' = [stream EXCEPT ![sidCount + 1] = "open"]
    /\ caller' = [caller EXCEPT ![c].pc = "hdr", ![c].own = sidCount + 1]
    /\ UNCHANGED <<strms, closer, mon, reconnectCh, disturbed>>

\* c.newStrm() returned an error
UDPNewStrmErr(c) ==
    /\ caller[c].pc = "new"
    /\ caller' = [caller EXCEPT ![c].pc = "ret", ![c].err = TRUE]
    /\ UNCHANGED <<strms, stream, sidCount, closer, mon, reconnectCh, disturbed>>

\* tnet.NewAddr and p.Write(strm) succeeded
UDPHeader(c) ==
    /\ caller[c].pc = "hdr"
    /\ caller' = [caller EXCEPT ![c].pc = "store"]
    /\ UNCHANGED <<strms, stream, sidCount, closer, mon, reconnectCh, disturbed>>

\* tnet.NewAddr or p.Write(strm) failed: strm.Close(), return the error
UDPHeaderErr(c) ==
    /\ caller[c].pc = "hdr"
    /\ stream' = [stream EXCEPT ![caller[c].own] = "closed"]
    /\ caller' = [caller EXCEPT ![c].pc = "ret", ![c].err = TRUE]
    /\ UNCHANGED <<strms, sidCount, closer, mon, reconnectCh, disturbed>>

\* A UDP that stores its stream whatever the pool holds for the key.
UDPStore(c) ==
    /\ caller[c].pc = "store"
    /\ strms' = [strms EXCEPT ![caller[c].key] = caller[c].own]
    /\ caller' = [caller EXCEPT ![c].pc = "ret", ![c].ret = caller[c].own,
                                ![c].isNew = TRUE]
    /\ UNCHANGED <<stream, sidCount, closer, mon, reconnectCh, disturbed>>

\* A UDP that, on a lost LoadOrStore, returns the existing stream and
\* leaves its own stream open.
UDPLoadOrStoreNoClose(c) ==
    /\ caller[c].pc = "store"
    /\ LET key == caller[c].key
           own == caller[c].own
           loaded == strms[key] # Nil
       IN
        /\ strms' = IF loaded THEN strms ELSE [strms EXCEPT ![key] = own]
        /\ caller' = [caller EXCEPT ![c].pc = "ret",
                                    ![c].ret = IF loaded THEN strms[key] ELSE own,
                                    ![c].isNew = ~loaded]
    /\ UNCHANGED <<stream, sidCount, closer, mon, reconnectCh, disturbed>>

\* c.udpPool.strms.LoadOrStore(key, strm): on loaded, close the own stream
\* and return the existing one; else return the own stream with is_new.
UDPLoadOrStore(c) ==
    /\ caller[c].pc = "store"
    /\ LET key == caller[c].key
           own == caller[c].own
           loaded == strms[key] # Nil
       IN
        /\ strms' = IF loaded THEN strms ELSE [strms EXCEPT ![key] = own]
        /\ stream' = IF loaded THEN [stream EXCEPT ![own] = "closed"]
                     ELSE stream
        /\ caller' = [caller EXCEPT ![c].pc = "ret",
                                    ![c].ret = IF loaded THEN strms[key] ELSE own,
                                    ![c].isNew = ~loaded]
    /\ UNCHANGED <<sidCount, closer, mon, reconnectCh, disturbed>>

\* Client.CloseUDP(key) -> udpPool.delete(key): p.strms.LoadAndDelete(key)
DeleteLoad(key) ==
    /\ closer.pc = "idle"
    /\ strms[key] # Nil
    /\ closer' = [pc |-> "close", value |-> strms[key]]
    /\ strms' = [strms EXCEPT ![key] = Nil]
    /\ disturbed' = [disturbed EXCEPT ![key] = TRUE]
    /\ UNCHANGED <<stream, sidCount, caller, mon, reconnectCh>>

\* udpPool.delete: strm.Close()
DeleteClose ==
    /\ closer.pc = "close"
    /\ stream' = [stream EXCEPT ![closer.value] = "closed"]
    /\ closer' = CloserIdle
    /\ UNCHANGED <<strms, sidCount, caller, mon, reconnectCh, disturbed>>

\* startNetworkMonitor: a tick on which networkChanged is true; the monitor
\* calls handleNetworkChange, which starts with invalidateAll's Range over
\* the keys the map holds.
NetworkChange ==
    /\ mon.pc = "idle"
    /\ mon' = [MonIdle EXCEPT !.pc = "range",
                              !.snap = {k \in Keys : strms[k] # Nil},
                              !.atStart = {strms[k] : k \in Keys} \ {Nil}]
    /\ UNCHANGED <<strms, stream, sidCount, caller, closer, reconnectCh, disturbed>>

\* sync.Map.Range hands the callback a key it has not visited yet and the
\* value the map holds for it now.  A key stored after Range began may or
\* may not be visited.
RangeVisit(key) ==
    /\ mon.pc = "range"
    /\ key \notin mon.visited
    /\ strms[key] # Nil
    /\ mon' = [mon EXCEPT !.pc = "close", !.key = key, !.value = strms[key],
                          !.visited = @ \cup {key}]
    /\ disturbed' = [disturbed EXCEPT ![key] = TRUE]
    /\ UNCHANGED <<strms, stream, sidCount, caller, closer, reconnectCh>>

\* Range passes a key that was deleted in the meantime.
RangeSkip(key) ==
    /\ mon.pc = "range"
    /\ key \in mon.snap \ mon.visited
    /\ strms[key] = Nil
    /\ mon' = [mon EXCEPT !.visited = @ \cup {key}]
    /\ UNCHANGED <<strms, stream, sidCount, caller, closer, reconnectCh, disturbed>>

\* invalidateAll's callback: strm.Close()
RangeClose ==
    /\ mon.pc = "close"
    /\ stream' = [stream EXCEPT ![mon.value] = "closed"]
    /\ mon' = [mon EXCEPT !.pc = "delete"]
    /\ UNCHANGED <<strms, sidCount, caller, closer, reconnectCh, disturbed>>

\* invalidateAll's callback: p.strms.Delete(key); return true
RangeDelete ==
    /\ mon.pc = "delete"
    /\ strms' = [strms EXCEPT ![mon.key] = Nil]
    /\ mon' = [mon EXCEPT !.pc = "range", !.key = "", !.value = Nil]
    /\ UNCHANGED <<stream, sidCount, caller, closer, reconnectCh, disturbed>>

\* Range returns once it has passed every key the map held when it began.
RangeEnd ==
    /\ mon.pc = "range"
    /\ mon.snap \subseteq mon.visited
    /\ mon' = [mon EXCEPT !.pc = "trigger"]
    /\ UNCHANGED <<strms, stream, sidCount, caller, closer, reconnectCh, disturbed>>

\* handleNetworkChange: tc.triggerReconnect() for the next connection of
\* c.iter.Items: a non-blocking send on the one-slot channel reconnectCh.
TriggerReconnect ==
    /\ mon.pc = "trigger"
    /\ reconnectCh' = [reconnectCh EXCEPT ![mon.next] = 1]
    /\ mon' = [mon EXCEPT !.next = @ + 1,
                          !.taken = @ \ {mon.next},
                          !.pc = IF mon.next = NConns THEN "done" ELSE "trigger"]
    /\ UNCHANGED <<strms, stream, sidCount, caller, closer, disturbed>>

\* handleNetworkChange returns; the monitor waits for its next tick.
HandleReturn ==
    /\ mon.pc = "done"
    /\ mon' = MonIdle
    /\ UNCHANGED <<strms, stream, sidCount, caller, closer, reconnectCh, disturbed>>

\* reconnectLoop: case <-tc.reconnectCh: tc.reconnect() replaces the
\* connection.
Reconnect(i) ==
    /\ reconnectCh[i] = 1
    /\ reconnectCh' = [reconnectCh EXCEPT ![i] = 0]
    /\ mon' = IF mon.pc \in {"trigger", "done"}
                THEN [mon EXCEPT !.taken = @ \cup {i}] ELSE mon
    /\ UNCHANGED <<strms, stream, sidCount, caller, closer, disturbed>>

\* ------------------------------------------------------------------------
\* Client UDP pool: properties
\* ------------------------------------------------------------------------

\* No handler has started a reader yet
RdrIdle ==
    /\ skey = [s \in StreamIds |-> ""]
    /\ rdr = [s \in StreamIds |-> "none"]

\* TUN.handleUDP: t.client.UDP returned; when the stream is new the handler
\* starts the reader goroutine of the stream, which remembers key
HandleUDPStore(c) ==
    /\ UDPLoadOrStore(c)
    /\ LET own == caller[c].own IN
        IF caller'[c].isNew
          THEN /\ skey' = [skey EXCEPT ![own] = caller[c].key]
               /\ rdr' = [rdr EXCEPT ![own] = "reading"]
          ELSE UNCHANGED rdrVars

\* The reader of stream s: ReadUDPFrame(strm, rb) returned an error (the
\* stream was closed, or nothing came within the 8 s deadline); the deferred
\* t.client.CloseUDP(key) runs: LoadAndDelete(key)
ReaderCloseUDP(s) ==
    /\ rdr[s] = "reading"
    /\ closer.pc = "idle"
    /\ IF strms[skey[s]] # Nil
         THEN /\ DeleteLoad(skey[s])
              /\ rdr' = [rdr EXCEPT ![s] = "closing"]
         ELSE /\ rdr' = [rdr EXCEPT ![s] = "gone"]
              /\ UNCHANGED poolVars
    /\ UNCHANGED skey

\* udpPool.delete called by a reader: strm.Close() on the value it loaded
ReaderCloseDone ==
    /\ DeleteClose
    /\ rdr' = [s \in StreamIds |-> IF rdr[s] = "closing" THEN "gone" ELSE rdr[s]]
    /\ UNCHANGED skey

\* C34: the CloseUDP(key) a stream's reader issues after the stream's I/O
\* error closes and removes only that stream: the value it takes out of the
\* pool and closes is never another, newer stream stored under the key.
C34_ReaderClosesOwnStream ==
    \A s \in StreamIds : rdr[s] = "closing" => closer.value = s

\* C33: a stream that leaves the pool has been closed: whenever the entry of
\* a key stops holding a stream, that stream is closed, or it is in the hands
\* of the CloseUDP call that took it out and closes it next.
C33_RemovedStreamsClosed ==
    [][\A k \in Keys :
          (strms[k] # Nil /\ strms'[k] # strms[k]) =>
              \/ stream'[strms[k]] = "closed"
              \/ (closer'.pc = "close" /\ closer'.value = strms[k])]_vars

\* The UDP calls made for key, and whether all of them have returned
\* without error while no CloseUDP or invalidation touched the key.
CallsFor(key) == {c \in Callers : caller[c].pc # "idle" /\ caller[c].key = key}
Settled(key) ==
    /\ CallsFor(key) # {}
    /\ \A c \in CallsFor(key) : caller[c].pc = "ret" /\ ~caller[c].err
    /\ ~disturbed[key]

\* C1: when concurrent UDP(local, target) calls with identical arguments
\* have all returned without error, and no CloseUDP or invalidation ran on
\* the key, the pool holds one stream for the key, exactly one caller was
\* told is_new = true, and every caller was returned the pool's stream.
C1_OneStreamOneNew ==
    \A key \in Keys :
        Settled(key) =>
            /\ strms[key] # Nil
            /\ Cardinality({c \in CallsFor(key) : caller[c].isNew}) = 1
            /\ \A c \in CallsFor(key) : caller[c].ret = strms[key]

\* C1 witness: the calls for a key have settled and two of them raced: one
\* opened a stream of its own, lost the LoadOrStore and was returned the
\* winner's stream.
C1_RacedAndSettled ==
    \E key \in Keys :
        /\ Settled(key)
        /\ \E c \in CallsFor(key) :
               caller[c].own # Nil /\ caller[c].ret # caller[c].own

\* C16: the pool maps a key to at most one stream (an entry is one stream
\* that newStrm opened); a UDP call that lost the insert has closed its own
\* stream and was returned the stream the pool held; and at the step by
\* which a UDP call returns, the stream it opened is the pool's stream for
\* its key or is closed.
C16_LoserClosesOwn ==
    /\ [](/\ \A k \in Keys : strms[k] = Nil \/ strms[k] \in 1..sidCount
          /\ \A c \in Callers :
                (caller[c].pc = "ret" /\ caller[c].own # Nil
                    /\ ~caller[c].err /\ ~caller[c].isNew)
                => /\ stream[caller[c].own] = "closed"
                   /\ caller[c].ret \notin {Nil, caller[c].own})
    /\ [][\A c \in Callers :
            (caller[c].pc # "ret" /\ caller'[c].pc = "ret"
                /\ caller'[c].own # Nil)
            => \/ stream'[caller'[c].own] = "closed"
               \/ strms'[caller'[c].key] = caller'[c].own]_vars

\* C16 witness: a UDP call opened a stream, lost the LoadOrStore to another
\* call, closed its stream and returned the pooled one.
C16_LostAndClosed ==
    \E c \in Callers :
        /\ caller[c].pc = "ret"
        /\ ~caller[c].err /\ ~caller[c].isNew
        /\ caller[c].own # Nil
        /\ stream[caller[c].own] = "closed"
        /\ caller[c].ret # caller[c].own

\* C10: when the handling of a network change completes, every stream that
\* was in the UDP pool has been closed and removed, the pool is empty, and
\* a reconnect has been triggered on every connection of the session (its
\* reconnect signal is pending or its loop has taken it).
C10_PoolEmptiedAllTriggered ==
    mon.pc = "done" =>
        /\ \A s \in mon.atStart :
               stream[s] = "closed" /\ \A k \in Keys : strms[k] # s
        /\ \A k \in Keys : strms[k] = Nil
        /\ \A i \in Conns : reconnectCh[i] = 1 \/ i \in mon.taken

\* ------------------------------------------------------------------------
\* Client: the network monitor (startNetworkMonitor, networkChanged)
\* ------------------------------------------------------------------------

\* networkState{interfaceUp, localIP}: what getNetworkState can return.  The
\* zero state is returned when the interface cannot be looked up; localIP is
\* "" when the interface has no IPv4 address or Addrs() fails.
LocalIPs  == {"", "192.168.1.10", "10.0.0.7"}
NetStates == [interfaceUp : BOOLEAN, localIP : LocalIPs]

\* (c *Client) networkChanged(prev, curr)
networkChanged(prev, curr) ==
    \/ prev.interfaceUp # curr.interfaceUp
    \/ prev.localIP # curr.localIP /\ prev.localIP # "" /\ curr.localIP # ""

\* The monitor is not running (the variables of its goroutine are unused).
NetIdle ==
    /\ lastState = [interfaceUp |-> FALSE, localIP |-> ""]
    /\ seenIP = ""

\* startNetworkMonitor: lastState := c.getNetworkState() before the ticker
\* starts.  The session is serving: the pool holds streams for some keys.
MonInit ==
    /\ lastState \in NetStates
    /\ seenIP = lastState.localIP
    /\ \E n \in 0..Cardinality(Keys) :
        /\ sidCount = n
        /\ stream = [s \in StreamIds |-> IF s <= n THEN "open" ELSE "none"]
        /\ strms = [k \in Keys |->
                      IF k = "a>x" /\ n >= 1 THEN 1
                      ELSE IF k = "b>x" /\ n >= 2 THEN 2 ELSE Nil]
    /\ caller = [c \in Callers |-> NoCall]
    /\ closer = CloserIdle
    /\ mon = MonIdle
    /\ reconnectCh = [i \in Conns |-> 0]
    /\ disturbed = [k \in Keys |-> FALSE]

\* startNetworkMonitor, case <-ticker.C: currentState := getNetworkState();
\* if networkChanged(lastState, currentState) { handleNetworkChange() };
\* lastState = currentState.  handleNetworkChange runs in the monitor's own
\* goroutine, so the next tick is taken only after it returned; lastState is
\* local to the goroutine, so assigning it here or after the handler is the
\* same.
MonitorPoll(currentState) ==
    /\ mon.pc = "idle"
    /\ IF networkChanged(lastState, currentState)
         THEN mon' = [MonIdle EXCEPT !.pc = "range",
                          !.snap = {k \in Keys : strms[k] # Nil},
                          !.atStart = {strms[k] : k \in Keys} \ {Nil}]
         ELSE mon' = mon
    /\ lastState' = currentState
    /\ seenIP' = IF currentState.localIP # "" THEN currentState.localIP
                 ELSE seenIP
    /\ UNCHANGED <<strms, stream, sidCount, caller, closer, reconnectCh, disturbed>>

\* C11: whenever the monitor's observation differs from its previous one in
\* the interface's up/down state or in the primary IPv4 address, and
\* whenever the address it observes differs from the last address it
\* observed before the address disappeared, the poll detects a network
\* change and starts handling it.
C11_ChangeDetected ==
    [][(\/ lastState' # lastState
        \/ seenIP # "" /\ seenIP' # seenIP)
       => mon'.pc = "range"]_vars
\* ------------------------------------------------------------------------
\* Client: connections of the session, newStrm, reconnect, health check
\* ------------------------------------------------------------------------

NWorkers   == 1     \* goroutines calling Client.newStrm
NDials     == 1     \* connections the reconnect loops establish in a run
MaxFrames  == 2     \* TCPF frames on one connection are counted up to this
maxRetries == 10    \* const maxRetries
backoffBaseMs == 100    \* backoff: 100 * time.Millisecond
backoffCapMs  == 5000   \* backoff: 5 * time.Second
waitConnSleepMs == 1000 \* waitConn: time.Sleep(time.Second)

Workers == 1..NWorkers
ConnIds == 1..(NConns + NDials)

RECURSIVE Pow2(_)
Pow2(n) == IF n = 0 THEN 1 ELSE 2 * Pow2(n - 1)

\* backoff(attempt): the duration it sleeps, in milliseconds
backoffUncapped(attempt) == Pow2(attempt) * backoffBaseMs
backoff(attempt) ==
    LET d == Pow2(attempt) * backoffBaseMs
    IN  IF d > backoffCapMs THEN backoffCapMs ELSE d

NoTConn == [state |-> "none", tc |-> Nil, tcpf |-> 0]
LoopIdle == [pc |-> "idle", slept |-> 0, new |-> Nil, retried |-> FALSE]
NoWork == [pc |-> "idle", attempt |-> 0, tc |-> Nil, conn |-> Nil,
           ret |-> "none", waited |-> 0, opened |-> 0]
HealthIdle == [pc |-> "idle", i |-> Nil, conn |-> Nil]

\* After Client.Start: newTimedConn has run createConn for every entry of
\* c.iter.Items (each connection dialled, its TCPF frame sent) and started
\* the reconnect loop; the ticker is started.
ConnIdle ==
    /\ tcConn = [i \in Conns |-> i]
    /\ tcMu = [i \in Conns |-> FALSE]
    /\ cMu = Nil
    /\ iterIndex = 0
    /\ tconn = [x \in ConnIds |->
                  IF x \in Conns THEN [state |-> "open", tc |-> x, tcpf |-> 1]
                  ELSE NoTConn]
    /\ connCount = NConns
    /\ sendPending = Nil
    /\ loop = [i \in Conns |-> LoopIdle]
    /\ worker = [w \in Workers |-> NoWork]
    /\ health = HealthIdle
    /\ pingFailed = [i \in Conns |-> FALSE]

\* tc.triggerReconnect(): non-blocking send on the one-slot channel
triggerReconnect(i) == [reconnectCh EXCEPT ![i] = 1]

\* A goroutine calls c.newStrm(): attempt := 0
NewStrmCall(w) ==
    /\ worker[w].pc \in {"idle", "ret"}
    /\ worker' = [worker EXCEPT ![w] = [NoWork EXCEPT !.pc = "lock"]]
    /\ UNCHANGED <<tcConn, tcMu, cMu, iterIndex, tconn, connCount, sendPending,
                   loop, health, pingFailed, reconnectCh>>

\* newConn: c.mu.Lock(); tc := c.iter.Next()
NewConnLock(w) ==
    /\ worker[w].pc = "lock"
    /\ cMu = Nil
    /\ cMu' = w
    /\ iterIndex' = (iterIndex + 1) % NConns
    /\ worker' = [worker EXCEPT ![w].pc = "getConn",
                                ![w].tc = ((iterIndex + 1) % NConns) + 1]
    /\ UNCHANGED <<tcConn, tcMu, tconn, connCount, sendPending, loop, health,
                   pingFailed, reconnectCh>>

\* newConn: conn := tc.getConn(); if conn == nil { tc.triggerReconnect();
\* return error } (the deferred c.mu.Unlock runs)
NewConnGet(w) ==
    /\ worker[w].pc = "getConn"
    /\ ~tcMu[worker[w].tc]
    /\ IF tcConn[worker[w].tc] = Nil
         THEN /\ reconnectCh' = triggerReconnect(worker[w].tc)
              /\ cMu' = Nil
              /\ worker' = [worker EXCEPT ![w].pc = "backoff"]
         ELSE /\ worker' = [worker EXCEPT ![w].pc = "ping",
                                          ![w].conn = tcConn[worker[w].tc]]
              /\ UNCHANGED <<reconnectCh, cMu>>
    /\ UNCHANGED <<tcConn, tcMu, iterIndex, tconn, connCount, sendPending,
                   loop, health, pingFailed>>

\* newConn: conn.Ping(false) succeeded (a stream could be opened on the
\* connection); go tc.sendTCPF(conn); return conn (c.mu is unlocked)
NewConnPingOK(w) ==
    /\ worker[w].pc = "ping"
    /\ tconn[worker[w].conn].state = "open"
    /\ sendPending = Nil          \* one such goroutine at a time in a run
    /\ sendPending' = worker[w].conn
    /\ cMu' = Nil
    /\ worker' = [worker EXCEPT ![w].pc = "open"]
    /\ UNCHANGED <<tcConn, tcMu, iterIndex, tconn, connCount, loop, health,
                   pingFailed, reconnectCh>>

\* newConn: conn.Ping(false) failed; tc.triggerReconnect(); return error
NewConnPingFail(w) ==
    /\ worker[w].pc = "ping"
    /\ reconnectCh' = triggerReconnect(worker[w].tc)
    /\ pingFailed' = [pingFailed EXCEPT ![worker[w].tc] = TRUE]
    /\ cMu' = Nil
    /\ worker' = [worker EXCEPT ![w].pc = "backoff", ![w].conn = Nil]
    /\ UNCHANGED <<tcConn, tcMu, iterIndex, tconn, connCount, sendPending,
                   loop, health>>

\* the goroutine started by newConn: tc.sendTCPF(conn) opens a stream and
\* writes the PTCPF frame; on a closed connection OpenStrm fails.
SendTCPFAsync(x) ==
    /\ sendPending = x
    /\ sendPending' = Nil
    /\ \/ /\ tconn[x].state = "open"
          /\ tconn' = [tconn EXCEPT ![x].tcpf =
                           IF @ < MaxFrames THEN @ + 1 ELSE @]
       \/ UNCHANGED tconn
    /\ UNCHANGED <<tcConn, tcMu, cMu, iterIndex, connCount, loop, worker,
                   health, pingFailed, reconnectCh>>

\* newStrm: strm, err := conn.OpenStrm() succeeded; return strm, nil
NewStrmOpenOK(w) ==
    /\ worker[w].pc = "open"
    /\ tconn[worker[w].conn].state = "open"
    /\ worker' = [worker EXCEPT ![w].pc = "ret", ![w].ret = "strm",
                                ![w].opened = @ + 1]
    /\ UNCHANGED <<tcConn, tcMu, cMu, iterIndex, tconn, connCount, sendPending,
                   loop, health, pingFailed, reconnectCh>>

\* newStrm: conn.OpenStrm() failed
NewStrmOpenFail(w) ==
    /\ worker[w].pc = "open"
    /\ worker' = [worker EXCEPT ![w].pc = "backoff", ![w].conn = Nil]
    /\ UNCHANGED <<tcConn, tcMu, cMu, iterIndex, tconn, connCount, sendPending,
                   loop, health, pingFailed, reconnectCh>>

\* newStrm after a failed attempt: backoff(attempt); continue.  When the
\* loop condition attempt < maxRetries fails, newStrm returns the error.
NewStrmBackoffUncapped(w) ==
    /\ worker[w].pc = "backoff"
    /\ worker' = [worker EXCEPT
           ![w].waited = backoffUncapped(worker[w].attempt),
           ![w].attempt = @ + 1,
           ![w].pc = IF worker[w].attempt + 1 < maxRetries THEN "lock" ELSE "ret",
           ![w].ret = IF worker[w].attempt + 1 < maxRetries THEN "none" ELSE "err"]
    /\ UNCHANGED <<tcConn, tcMu, cMu, iterIndex, tconn, connCount, sendPending,
                   loop, health, pingFailed, reconnectCh>>
NewStrmBackoff(w) ==
    /\ worker[w].pc = "backoff"
    /\ worker' = [worker EXCEPT
           ![w].waited = backoff(worker[w].attempt),
           ![w].attempt = @ + 1,
           ![w].pc = IF worker[w].attempt + 1 < maxRetries THEN "lock" ELSE "ret",
           ![w].ret = IF worker[w].attempt + 1 < maxRetries THEN "none" ELSE "err"]
    /\ UNCHANGED <<tcConn, tcMu, cMu, iterIndex, tconn, connCount, sendPending,
                   loop, health, pingFailed, reconnectCh>>
\* reconnectLoop: case <-tc.reconnectCh: tc.reconnect()
ReconnectTake(i) ==
    /\ loop[i].pc = "idle"
    /\ reconnectCh[i] = 1
    /\ reconnectCh' = [reconnectCh EXCEPT ![i] = 0]
    /\ loop' = [loop EXCEPT ![i].pc = "lock", ![i].retried = FALSE]
    /\ UNCHANGED <<tcConn, tcMu, cMu, iterIndex, tconn, connCount, sendPending,
                   worker, health, pingFailed>>

\* reconnect: tc.mu.Lock(); if tc.conn != nil the connection is closed with
\* the mutex held, otherwise the mutex is unlocked at once.
ReconnectLock(i) ==
    /\ loop[i].pc = "lock"
    /\ ~tcMu[i]
    /\ IF tcConn[i] # Nil
         THEN /\ tcMu' = [tcMu EXCEPT ![i] = TRUE]
              /\ loop' = [loop EXCEPT ![i].pc = "closing"]
         ELSE /\ loop' = [loop EXCEPT ![i].pc = "dial"]
              /\ UNCHANGED tcMu
    /\ UNCHANGED <<tcConn, cMu, iterIndex, tconn, connCount, sendPending,
                   worker, health, pingFailed, reconnectCh>>

\* reconnect: tc.conn.Close(); tc.conn = nil; tc.mu.Unlock()
ReconnectClose(i) ==
    /\ loop[i].pc = "closing"
    /\ tconn' = [tconn EXCEPT ![tcConn[i]].state = "closed"]
    /\ tcConn' = [tcConn EXCEPT ![i] = Nil]
    /\ tcMu' = [tcMu EXCEPT ![i] = FALSE]
    /\ loop' = [loop EXCEPT ![i].pc = "dial"]
    /\ UNCHANGED <<cMu, iterIndex, connCount, sendPending, worker, health,
                   pingFailed, reconnectCh>>

\* waitConn: tc.createConn() succeeded: socket.New, Dial and sendTCPF(conn)
\* all returned nil; waitConn returns the connection.
CreateConnOK(i) ==
    /\ loop[i].pc = "dial"
    /\ connCount < NConns + NDials
    /\ connCount' = connCount + 1
    /\ tconn' = [tconn EXCEPT ![connCount + 1] =
                    [state |-> "open", tc |-> i, tcpf |-> 1]]
    /\ loop' = [loop EXCEPT ![i].pc = "install", ![i].new = connCount + 1]
    /\ pingFailed' = [pingFailed EXCEPT ![i] = FALSE]
    /\ UNCHANGED <<tcConn, tcMu, cMu, iterIndex, sendPending, worker, health,
                   reconnectCh>>

\* waitConn: tc.createConn() returned an error (whatever was opened is
\* closed again); time.Sleep(time.Second) begins.
CreateConnFail(i) ==
    /\ loop[i].pc = "dial"
    /\ loop' = [loop EXCEPT ![i].pc = "sleep", ![i].slept = 0]
    /\ pingFailed' = [pingFailed EXCEPT ![i] = FALSE]
    /\ UNCHANGED <<tcConn, tcMu, cMu, iterIndex, tconn, connCount, sendPending,
                   worker, health, reconnectCh>>

\* waitConn: the sleep is over; the for loop calls createConn again.
WaitConnOnce(i) ==
    /\ loop[i].pc = "sleep"
    /\ loop' = [loop EXCEPT ![i].pc = "install", ![i].slept = waitConnSleepMs,
                            ![i].retried = TRUE]
    /\ UNCHANGED <<tcConn, tcMu, cMu, iterIndex, tconn, connCount, sendPending,
                   worker, health, pingFailed, reconnectCh>>
WaitConnSleep(i) ==
    /\ loop[i].pc = "sleep"
    /\ loop' = [loop EXCEPT ![i].pc = "dial", ![i].slept = waitConnSleepMs,
                            ![i].retried = TRUE]
    /\ UNCHANGED <<tcConn, tcMu, cMu, iterIndex, tconn, connCount, sendPending,
                   worker, health, pingFailed, reconnectCh>>

\* reconnect: tc.mu.Lock(); tc.conn = newConn; tc.mu.Unlock(); the loop
\* waits for the next signal.
ReconnectInstall(i) ==
    /\ loop[i].pc = "install"
    /\ ~tcMu[i]
    /\ tcConn' = [tcConn EXCEPT ![i] = loop[i].new]
    /\ loop' = [loop EXCEPT ![i] = [LoopIdle EXCEPT !.retried = loop[i].retried]]
    /\ UNCHANGED <<tcMu, cMu, iterIndex, tconn, connCount, sendPending, worker,
                   health, pingFailed, reconnectCh>>

\* ticker: case <-healthTicker.C: c.healthCheck() starts with Items[0]
HealthTick ==
    /\ health.pc = "idle"
    /\ health' = [pc |-> "load", i |-> 1, conn |-> Nil]
    /\ UNCHANGED <<tcConn, tcMu, cMu, iterIndex, tconn, connCount, sendPending,
                   loop, worker, pingFailed, reconnectCh>>

\* healthCheck moves on to the next entry of c.iter.Items, or returns
HealthNext(h) ==
    IF h.i < NConns THEN [pc |-> "load", i |-> h.i + 1, conn |-> Nil]
    ELSE HealthIdle

\* healthCheck: tc.mu.Lock(); conn := tc.conn; tc.mu.Unlock();
\* if conn == nil { continue }
HealthLoad ==
    /\ health.pc = "load"
    /\ ~tcMu[health.i]
    /\ health' = IF tcConn[health.i] = Nil THEN HealthNext(health)
                 ELSE [health EXCEPT !.pc = "ping", !.conn = tcConn[health.i]]
    /\ UNCHANGED <<tcConn, tcMu, cMu, iterIndex, tconn, connCount, sendPending,
                   loop, worker, pingFailed, reconnectCh>>

\* healthCheck: conn.Ping(true) returned nil (PING written, PONG read)
HealthPingOK ==
    /\ health.pc = "ping"
    /\ tconn[health.conn].state = "open"
    /\ health' = HealthNext(health)
    /\ UNCHANGED <<tcConn, tcMu, cMu, iterIndex, tconn, connCount, sendPending,
                   loop, worker, pingFailed, reconnectCh>>

\* healthCheck: conn.Ping(true) returned an error; tc.triggerReconnect()
HealthPingFailLogOnly ==
    /\ health.pc = "ping"
    /\ pingFailed' = [pingFailed EXCEPT ![health.i] = TRUE]
    /\ health' = HealthNext(health)
    /\ UNCHANGED <<tcConn, tcMu, cMu, iterIndex, tconn, connCount, sendPending,
                   loop, worker, reconnectCh>>
HealthPingFail ==
    /\ health.pc = "ping"
    /\ reconnectCh' = triggerReconnect(health.i)
    /\ pingFailed' = [pingFailed EXCEPT ![health.i] = TRUE]
    /\ health' = HealthNext(health)
    /\ UNCHANGED <<tcConn, tcMu, cMu, iterIndex, tconn, connCount, sendPending,
                   loop, worker>>
\* ------------------------------------------------------------------------
\* Client connections: shutdown, and the cause of each reconnect
\* ------------------------------------------------------------------------

\* The session runs: the context is live, no signal is pending
SessIdle ==
    /\ ctxDone = FALSE
    /\ shut = [i \in Conns |-> FALSE]
    /\ sigCause = [i \in Conns |-> -1]
    /\ loopCause = [i \in Conns |-> -1]

\* triggerReconnect's send went into the empty channel of timedConn i: the
\* signal is the one raised for cause
Raised(i, cause) ==
    IF reconnectCh[i] = 0 /\ reconnectCh'[i] = 1
      THEN [sigCause EXCEPT ![i] = cause] ELSE sigCause

\* newConn: conn == nil -> tc.triggerReconnect()
SessNewConnGet(w) ==
    /\ NewConnGet(w)
    /\ sigCause' = Raised(worker[w].tc, 0)
    /\ UNCHANGED <<ctxDone, shut, loopCause>>

\* newConn: conn.Ping(false) failed -> tc.triggerReconnect()
SessNewConnPingFail(w) ==
    /\ NewConnPingFail(w)
    /\ sigCause' = Raised(worker[w].tc, worker[w].conn)
    /\ UNCHANGED <<ctxDone, shut, loopCause>>

\* healthCheck: conn.Ping(true) failed -> tc.triggerReconnect()
SessHealthPingFail ==
    /\ HealthPingFail
    /\ sigCause' = Raised(health.i, health.conn)
    /\ UNCHANGED <<ctxDone, shut, loopCause>>

\* reconnectLoop: case <-tc.reconnectCh (select takes this case whenever
\* the channel is ready, a cancelled context notwithstanding)
SessReconnectTake(i) ==
    /\ ReconnectTake(i)
    /\ loopCause' = [loopCause EXCEPT ![i] = sigCause[i]]
    /\ sigCause' = [sigCause EXCEPT ![i] = -1]
    /\ UNCHANGED <<ctxDone, shut>>

\* reconnect returns
SessReconnectInstall(i) ==
    /\ ReconnectInstall(i)
    /\ loopCause' = [loopCause EXCEPT ![i] = -1]
    /\ UNCHANGED <<ctxDone, shut, sigCause>>

\* reconnectLoop: case <-tc.ctx.Done(): return
ReconnectLoopExit(i) ==
    /\ ctxDone
    /\ loop[i].pc = "idle"
    /\ loop' = [loop EXCEPT ![i].pc = "exited"]
    /\ UNCHANGED <<tcConn, tcMu, cMu, iterIndex, tconn, connCount, sendPending,
                   worker, health, pingFailed, reconnectCh>>
    /\ UNCHANGED sessVars

\* The context of Client.Start is cancelled
CtxCancel ==
    /\ ~ctxDone
    /\ ctxDone' = TRUE
    /\ UNCHANGED <<shut, sigCause, loopCause, connVars, reconnectCh>>

\* Client.Start's goroutine after <-ctx.Done(): tc.close() for each of
\* c.iter.Items in turn: under tc.mu, a connection there is is closed and
\* tc.conn set to nil
TimedConnClose(i) ==
    /\ ctxDone
    /\ ~shut[i]
    /\ \A j \in 1..(i - 1) : shut[j]
    /\ ~tcMu[i]
    /\ tconn' = IF tcConn[i] # Nil
                  THEN [tconn EXCEPT ![tcConn[i]].state = "closed"] ELSE tconn
    /\ tcConn' = [tcConn EXCEPT ![i] = Nil]
    /\ shut' = [shut EXCEPT ![i] = TRUE]
    /\ UNCHANGED <<tcMu, cMu, iterIndex, connCount, sendPending, loop, worker,
                   health, pingFailed, reconnectCh, ctxDone, sigCause, loopCause>>

\* C35: once the context is cancelled and close() has run on an endpoint,
\* the endpoint never again holds a connection and its reconnect loop makes
\* no further dial attempt.
C35_ClosedForGood ==
    [][\A i \in Conns :
          shut[i] =>
              /\ tcConn'[i] = Nil
              /\ ~(loop[i].pc = "dial" /\ loop'[i].pc \in {"install", "sleep"})]_vars

\* C36: a reconnect closes the current connection only because of a failure
\* observed on that same connection: not because of a signal raised for an
\* earlier connection or by a caller that found no connection while the
\* earlier reconnect was in progress.
C36_TornDownOnlyForOwnFailure ==
    \A i \in Conns : loop[i].pc = "closing" => loopCause[i] = tcConn[i]

\* ------------------------------------------------------------------------
\* Client connections: properties
\* ------------------------------------------------------------------------

\* The steps of one reconnectLoop goroutine, and of one newStrm caller
LoopStep(i) ==
    /\ \/ ReconnectTake(i) \/ ReconnectLock(i) \/ ReconnectClose(i)
       \/ CreateConnOK(i) \/ CreateConnFail(i) \/ WaitConnSleep(i)
       \/ ReconnectInstall(i)
    /\ UNCHANGED notConn
WorkerStep(w) ==
    /\ \/ NewConnLock(w) \/ NewConnGet(w) \/ NewConnPingOK(w)
       \/ NewConnPingFail(w) \/ NewStrmOpenOK(w) \/ NewStrmOpenFail(w)
       \/ NewStrmBackoff(w)
    /\ UNCHANGED notConn

\* The connections of endpoint i that are open
OpenConnsOf(i) ==
    {x \in ConnIds : tconn[x].tc = i /\ tconn[x].state = "open"}

\* The reconnect loop of endpoint i has just made a dial attempt, and every
\* connection the endpoint had before that attempt is closed.
JustDialled(i) ==
    /\ loop[i].pc \in {"sleep", "install"}
    /\ tcConn[i] = Nil
    /\ OpenConnsOf(i) \subseteq {loop[i].new}

C13_Serving(i) ==
    /\ loop[i].pc = "idle"
    /\ tcConn[i] # Nil
    /\ tconn[tcConn[i]].state = "open"
    /\ tconn[tcConn[i]].tc = i
C13_RetryUntilInstalled ==
    /\ [](\A i \in Conns :
            /\ loop[i].pc = "install" =>
                   loop[i].new # Nil /\ OpenConnsOf(i) = {loop[i].new}
            /\ loop[i].pc = "idle" => C13_Serving(i))
    /\ [][\A i \in Conns :
            /\ loop[i].pc = "sleep" =>
                   \/ loop'[i] = loop[i]
                   \/ loop'[i].pc = "dial" /\ loop'[i].slept = waitConnSleepMs
            /\ loop[i].pc = "dial" => loop'[i].pc \in {"dial", "sleep", "install"}
         ]_vars
    /\ \A i \in Conns : \A x \in ConnIds :
            (loop[i].pc = "install" /\ loop[i].new = x)
                ~> (C13_Serving(i) /\ tcConn[i] = x)

\* C13 witness: an attempt succeeded after at least one failed attempt and
\* its 1 s pause, and the new connection has been installed.
C13_InstalledAfterRetry ==
    \E i \in Conns :
        /\ C13_Serving(i)
        /\ tcConn[i] > NConns
        /\ loop[i].retried

\* C14: newStrm makes at most maxRetries = 10 attempts; after failed attempt
\* k (k = 0..9) it waits min(100 ms * 2^k, 5 s); it returns a stream as soon
\* as one was opened and the error only when 10 attempts have failed; and
\* every call returns.
C14_Wait(k) ==
    IF 100 * Pow2(k) < 5000 THEN 100 * Pow2(k) ELSE 5000
C15_NoMutexAcrossIO ==
    /\ \A w \in Workers : worker[w].pc \in {"ping", "open"} => cMu # w
    /\ \A i \in Conns : loop[i].pc \in {"closing", "dial", "sleep"} => ~tcMu[i]

\* C20: on every transport connection the client has established, the
\* PTCPF frame has been sent exactly once.
C20_TCPFOncePerConn ==
    \A x \in ConnIds : tconn[x].state # "none" => tconn[x].tcpf = 1
\* ------------------------------------------------------------------------
\* Protocol frames (package protocol): Proto.Write and Proto.Read
\* ------------------------------------------------------------------------

PPING == 1
PPONG == 2
PTCPF == 3
PTCP  == 4
PUDP  == 5
addrTypeIPv4     == 1
addrTypeIPv6     == 2
addrTypeHostname == 3

Bytes == 0..255

\* binary.BigEndian.PutUint16 / Uint16
PutUint16(n) == <<(n \div 256) % 256, n % 256>>
Uint16(b) == b[1] * 256 + b[2]

\* conf.TCPF as the set of the flags that are true
FlagsByte0 == <<"FIN", "SYN", "RST", "PSH", "ACK", "URG", "ECE", "CWR">>
AllFlags == {FlagsByte0[k] : k \in 1..8} \cup {"NS"}

RECURSIVE OrBits(_, _)
OrBits(f, k) ==
    IF k = 0 THEN 0
    ELSE (IF FlagsByte0[k] \in f THEN Pow2(k - 1) ELSE 0) + OrBits(f, k - 1)

\* packTCPF: bits 0..7 of b[0], bit 0 of b[1]
packTCPF(f) == <<OrBits(f, 8), IF "NS" \in f THEN 1 ELSE 0>>

\* unpackTCPF: b[0]&(1<<k) != 0, b[1]&1 != 0
unpackTCPF(b) ==
    {FlagsByte0[k] : k \in {j \in 1..8 : (b[1] \div Pow2(j - 1)) % 2 = 1}}
        \cup (IF b[2] % 2 = 1 THEN {"NS"} ELSE {})

\* The IP literals of the model: the text, and the 16-byte net.IP that
\* net.ParseIP returns for it (an IPv4 literal is returned in its
\* IPv4-in-IPv6 form).
V4In6(a, b, c, d) == <<0, 0, 0, 0, 0, 0, 0, 0, 0, 0, 255, 255, a, b, c, d>>
IPLiterals ==
    { [text |-> "93.184.216.34", ip |-> V4In6(93, 184, 216, 34)],
      [text |-> "10.0.0.1", ip |-> V4In6(10, 0, 0, 1)],
      [text |-> "::ffff:10.0.0.1", ip |-> V4In6(10, 0, 0, 1)],
      [text |-> "::1", ip |-> <<0, 0, 0, 0, 0, 0, 0, 0, 0, 0, 0, 0, 0, 0, 0, 1>>],
      [text |-> "0:0:0:0:0:0:0:1",
       ip |-> <<0, 0, 0, 0, 0, 0, 0, 0, 0, 0, 0, 0, 0, 0, 0, 1>>],
      [text |-> "2001:db8::1",
       ip |-> <<32, 1, 13, 184, 0, 0, 0, 0, 0, 0, 0, 0, 0, 0, 0, 1>>] }

\* The texts net.IP.String prints for the IPv6 addresses of the model
V6Canonical == {"::1", "2001:db8::1"}

\* The host names of the model and []byte(host)
HostNames == {"", "localhost", "example.com"}
HostBytes(h) ==
    CASE h = "" -> <<>>
      [] h = "localhost" -> <<108, 111, 99, 97, 108, 104, 111, 115, 116>>
      [] h = "example.com" ->
             <<101, 120, 97, 109, 112, 108, 101, 46, 99, 111, 109>>

\* string(hostBuf)
HostString(buf) ==
    IF \E h \in HostNames : HostBytes(h) = buf
    THEN CHOOSE h \in HostNames : HostBytes(h) = buf
    ELSE "?"

\* net.ParseIP: nil (the empty sequence) when the text is no IP literal
ParseIP(h) ==
    IF \E l \in IPLiterals : l.text = h
    THEN (CHOOSE l \in IPLiterals : l.text = h).ip
    ELSE <<>>

\* net.IP.To4: the last four bytes of a 4-in-6 address, nil otherwise
To4(ip) ==
    IF Len(ip) = 4 THEN ip
    ELSE IF Len(ip) = 16 /\ SubSeq(ip, 1, 12) = SubSeq(V4In6(0, 0, 0, 0), 1, 12)
    THEN SubSeq(ip, 13, 16)
    ELSE <<>>

\* net.IP.String: dotted decimal if To4 is not nil, else the canonical
\* IPv6 text
IPString(ip) ==
    LET v4 == To4(ip)
    IN  IF v4 # <<>>
        THEN ToString(v4[1]) \o "." \o ToString(v4[2]) \o "."
                 \o ToString(v4[3]) \o "." \o ToString(v4[4])
        ELSE IF \E l \in IPLiterals : l.ip = ip /\ l.text \in V6Canonical
        THEN (CHOOSE l \in IPLiterals : l.ip = ip /\ l.text \in V6Canonical).text
        ELSE "?"

\* *tnet.Addr: nil, or Host and Port
NilAddr == [nil |-> TRUE, Host |-> "", Port |-> 0]
Addr(host, port) == [nil |-> FALSE, Host |-> host, Port |-> port]
Proto(type, addr, tcpf) == [Type |-> type, Addr |-> addr, TCPF |-> tcpf]

\* The result of writing to an io.Writer that accepts every byte
Wrote(bytes, err) == [bytes |-> bytes, err |-> err]

RECURSIVE PackAll(_)
PackAll(list) ==
    IF list = <<>> THEN <<>> ELSE packTCPF(Head(list)) \o PackAll(Tail(list))

\* Proto.writeTCPF
writeTCPF(p) == Wrote(PutUint16(Len(p.TCPF) % 65536) \o PackAll(p.TCPF), "nil")

\* Proto.writeAddr (binary encoding)
writeAddr(p) ==
    IF p.Addr.nil THEN Wrote(<<>>, "ErrNilAddr")
    ELSE LET ip == ParseIP(p.Addr.Host)
             port == PutUint16(p.Addr.Port % 65536)
         IN  IF ip # <<>>
             THEN IF To4(ip) # <<>>
                  THEN Wrote(<<addrTypeIPv4>> \o To4(ip) \o port, "nil")
                  ELSE Wrote(<<addrTypeIPv6>> \o ip \o port, "nil")
             ELSE LET hostBytes == HostBytes(p.Addr.Host)
                  IN  IF Len(hostBytes) > 255
                      THEN Wrote(<<>>, "hostname too long")
                      ELSE Wrote(<<addrTypeHostname, Len(hostBytes)>>
                                     \o hostBytes \o port, "nil")

\* Proto.Write: the type byte, then the body of the frame
ProtoWrite(p) ==
    LET body == CASE p.Type \in {PPING, PPONG} -> Wrote(<<>>, "nil")
                  [] p.Type \in {PTCP, PUDP} -> writeAddr(p)
                  [] p.Type = PTCPF -> writeTCPF(p)
                  [] OTHER -> Wrote(<<>>, "ErrUnknownProtoType")
    IN  Wrote(<<p.Type>> \o body.bytes, body.err)

\* The result of reading from an io.Reader: the frame as far as it was
\* filled in, the number of bytes taken from the reader, and the error
ReadResult(p, n, err) == [p |-> p, n |-> n, err |-> err]

\* io.ReadFull(r, buf) of k bytes at offset off of the reader's bytes
ShortRead(r, off) == IF Len(r) = off THEN "EOF" ELSE "ErrUnexpectedEOF"

RECURSIVE UnpackAll(_, _, _)
UnpackAll(r, off, count) ==
    IF count = 0 THEN <<>>
    ELSE <<unpackTCPF(SubSeq(r, off + 1, off + 2))>>
             \o UnpackAll(r, off + 2, count - 1)

\* Proto.readTCPF, the type byte already read
readTCPF(p, r) ==
    IF Len(r) < 3 THEN ReadResult(p, Len(r), ShortRead(r, 1))
    ELSE LET count == Uint16(SubSeq(r, 2, 3))
             have == IF (Len(r) - 3) \div 2 < count
                         THEN (Len(r) - 3) \div 2 ELSE count
             q == [p EXCEPT !.TCPF =
                     UnpackAll(r, 3, have) \o [i \in 1..(count - have) |-> {}]]
         IN  IF have < count
             THEN ReadResult(q, Len(r), ShortRead(r, 3 + 2 * have))
             ELSE ReadResult(q, 3 + 2 * count, "nil")

\* Proto.readAddr (binary encoding), the type byte of the frame already read
readAddr(p, r) ==
    IF Len(r) < 2 THEN ReadResult(p, Len(r), "EOF")
    ELSE LET t == r[2]
             hostLen == CASE t = addrTypeIPv4 -> 4
                          [] t = addrTypeIPv6 -> 16
                          [] t = addrTypeHostname /\ Len(r) >= 3 -> r[3]
                          [] OTHER -> 0
             at == IF t = addrTypeHostname THEN 3 ELSE 2
             host == IF t = addrTypeHostname
                         THEN HostString(SubSeq(r, at + 1, at + hostLen))
                         ELSE IPString(SubSeq(r, at + 1, at + hostLen))
         IN  IF t \notin {addrTypeIPv4, addrTypeIPv6, addrTypeHostname}
                 THEN ReadResult(p, 2, "unknown address type")
             ELSE IF Len(r) < at THEN ReadResult(p, Len(r), "EOF")
             ELSE IF Len(r) < at + hostLen
                 THEN ReadResult(p, Len(r), ShortRead(r, at))
             ELSE IF Len(r) < at + hostLen + 2
                 THEN ReadResult(p, Len(r), ShortRead(r, at + hostLen))
             ELSE ReadResult(
                      [p EXCEPT !.Addr =
                          Addr(host, Uint16(SubSeq(r, at + hostLen + 1,
                                                   at + hostLen + 2)))],
                      at + hostLen + 2, "nil")

\* Proto.Read into a zero Proto
ProtoRead(r) ==
    LET zero == Proto(0, NilAddr, <<>>)
    IN  IF r = <<>> THEN ReadResult(zero, 0, "EOF")
        ELSE LET p == [zero EXCEPT !.Type = r[1]]
             IN  CASE p.Type \in {PPING, PPONG} -> ReadResult(p, 1, "nil")
                   [] p.Type \in {PTCP, PUDP} -> readAddr(p, r)
                   [] p.Type = PTCPF -> readTCPF(p, r)
                   [] OTHER -> ReadResult(p, 1, "ErrUnknownProtoType")

\* The frames of the model
MaxTCPF == 2        \* entries of a TCPF list
FlagSets == {{}, {"SYN", "ACK"}, {"PSH", "ACK"}, {"NS"}, AllFlags}
FrameHosts == {l.text : l \in IPLiterals} \cup HostNames
FramePorts == {0, 443, 65535}
TCPFLists == UNION {[1..n -> FlagSets] : n \in 0..MaxTCPF}
Protos ==
    {Proto(t, NilAddr, <<>>) : t \in {PPING, PPONG}}
        \cup {Proto(PTCPF, NilAddr, l) : l \in TCPFLists}
        \cup {Proto(t, Addr(h, port), <<>>) :
                 t \in {PTCP, PUDP}, h \in FrameHosts, port \in FramePorts}

\* Bytes a peer may send where a frame is expected
RawWires == {<<>>, <<0>>, <<6>>, <<6, 0, 0>>, <<255>>, <<PTCP>>, <<PTCP, 9>>,
             <<PTCP, addrTypeIPv4, 10, 0>>, <<PTCPF, 0>>, <<PTCPF, 0, 1, 2>>}

\* The bytes that follow the frame on the stream
Tails == {<<>>, <<0, 1, 7>>}

ZeroProto == Proto(0, NilAddr, <<>>)
ProtoIdle ==
    /\ prIn = [p |-> ZeroProto, tail |-> <<>>]
    /\ prWire = Wrote(<<>>, "nil")
    /\ prOut = ReadResult(ZeroProto, 0, "nil")
    /\ prPc = "start"

\* A frame p is about to be written to a stream and tail will follow it;
\* or (p the zero Proto) the peer is about to send bytes of its own.
ProtoInit ==
    /\ prIn \in [p : Protos \cup {ZeroProto}, tail : Tails]
    /\ prWire = Wrote(<<>>, "nil")
    /\ prOut = ReadResult(ZeroProto, 0, "nil")
    /\ prPc = "start"

\* p.Write(w)
ProtoWriteStep ==
    /\ prPc = "start"
    /\ prIn.p \in Protos
    /\ prWire' = ProtoWrite(prIn.p)
    /\ prPc' = "written"
    /\ UNCHANGED <<prIn, prOut>>

\* Instead of a frame written by Proto.Write, the peer sends other bytes
PeerWrites(raw) ==
    /\ prPc = "start"
    /\ prIn.p = ZeroProto
    /\ prWire' = Wrote(raw, "nil")
    /\ prPc' = "written"
    /\ UNCHANGED <<prIn, prOut>>

\* p.Read(r) on the other end of the stream
ProtoReadStep ==
    /\ prPc = "written"
    /\ prOut' = ProtoRead(prWire.bytes \o prIn.tail)
    /\ prPc' = "read"
    /\ UNCHANGED <<prIn, prWire>>

\* C22: for every frame P (PING, PONG, TCPF with any flag list, TCP or UDP
\* with an IPv4, IPv6 or host name address and any port), Write succeeds,
\* and Read of the bytes written returns a frame equal to P and takes
\* exactly those bytes from the stream.
C22_RoundTrip ==
    (prPc = "read" /\ prIn.p \in Protos) =>
        /\ prWire.err = "nil"
        /\ prOut.err = "nil"
        /\ prOut.p = prIn.p
        /\ prOut.n = Len(prWire.bytes)
\* ------------------------------------------------------------------------
\* Client: the streams its initiators open (Ping, sendTCPF, UDPNew,
\* UDPDatagramNew) and what they write on them
\* ------------------------------------------------------------------------

MaxOpens == 3       \* streams opened in a run
MaxData  == 2       \* datagrams written on one UDP stream
PUDPDGM  == 6       \* protocol.PUDPDGM; not one of the five declared types

\* How a write to the stream can fail: not at all, before the first byte,
\* or after the type byte of the frame
StreamErrs == {"none", "atStart", "afterType"}

\* The bytes the peer sends in answer to a PING
Replies == {<<PPONG>>, <<PPING>>, <<>>, <<0>>, <<PUDPDGM>>, <<255>>}

\* The frames of the initiators: tc.cfg.Network.TCP.RF and the target
cfgRF == <<{"PSH", "ACK"}>>
taddr == Addr("10.0.0.1", 4789)

\* p.Write(strm) on a stream whose writes fail as serr says
StrmProtoWrite(p, serr) ==
    LET w == ProtoWrite(p)
    IN  CASE serr = "atStart" -> Wrote(<<>>, "io")
          [] serr = "afterType" /\ Len(w.bytes) > 1 -> Wrote(<<p.Type>>, "io")
          [] OTHER -> w

\* What is recorded of a write of frame p: nothing, a whole frame, or the
\* part of a frame that went out before the error
FrameEvents(p, w) ==
    IF w.bytes = <<>> THEN <<>>
    ELSE <<[ev |-> IF w.err = "nil" THEN "frame" ELSE "partial",
            type |-> p.Type]>>

\* A stream as the initiator leaves it
OpenedStrm(by, w, p, closed, err) ==
    [by |-> by, wire |-> w.bytes, log |-> FrameEvents(p, w),
     closed |-> closed, err |-> err, reply |-> ReadResult(ZeroProto, 0, "nil")]

\* Conn.Ping(wait) on a connection whose OpenStream succeeds: wait=false
\* only opens the stream; wait=true writes PPING and reads the answer;
\* the deferred strm.Close() runs in every case.
Ping(wait, serr, raw) ==
    /\ ostrmCount < MaxOpens
    /\ ostrmCount' = ostrmCount + 1
    /\ LET p == Proto(PPING, NilAddr, <<>>)
           w == StrmProtoWrite(p, serr)
           r == ProtoRead(raw)
       IN  ostrm' = Append(ostrm,
             IF ~wait THEN OpenedStrm("ping", Wrote(<<>>, "nil"), p, TRUE, "nil")
             ELSE IF w.err # "nil" THEN OpenedStrm("ping", w, p, TRUE, w.err)
             ELSE [OpenedStrm("ping", w, p, TRUE,
                              IF r.err # "nil" THEN r.err
                              ELSE IF r.p.Type # PPONG THEN "unexpected"
                              ELSE "nil")
                      EXCEPT !.reply = r])

\* timedConn.sendTCPF: OpenStrm, write the PTCPF frame, deferred Close
sendTCPF(serr) ==
    /\ ostrmCount < MaxOpens
    /\ ostrmCount' = ostrmCount + 1
    /\ LET p == Proto(PTCPF, NilAddr, cfgRF)
           w == StrmProtoWrite(p, serr)
       IN  ostrm' = Append(ostrm, OpenedStrm("tcpf", w, p, TRUE, w.err))

\* Client.UDPNew once newStrm has returned a stream: an invalid target
\* closes the stream; otherwise the PUDP frame is written and the stream is
\* returned open, or closed on a write error.
UDPNew(addrOK, serr) ==
    /\ ostrmCount < MaxOpens
    /\ ostrmCount' = ostrmCount + 1
    /\ LET p == Proto(PUDP, taddr, <<>>)
           w == StrmProtoWrite(p, serr)
       IN  ostrm' = Append(ostrm,
             IF ~addrOK
             THEN OpenedStrm("udp", Wrote(<<>>, "nil"), p, TRUE, "invalid address")
             ELSE OpenedStrm("udp", w, p, w.err # "nil", w.err))

\* Client.UDPDatagramNew on a connection that supports datagrams: the
\* control stream gets the PUDPDGM frame and is closed.
UDPDatagramNew(addrOK, serr) ==
    /\ ostrmCount < MaxOpens
    /\ ostrmCount' = ostrmCount + 1
    /\ LET p == Proto(PUDPDGM, taddr, <<>>)
           w == StrmProtoWrite(p, serr)
       IN  ostrm' = Append(ostrm,
             IF ~addrOK
             THEN OpenedStrm("dgm", Wrote(<<>>, "nil"), p, TRUE, "invalid address")
             ELSE OpenedStrm("dgm", w, p, TRUE, w.err))

\* The forwarder sends a datagram on a stream UDPNew returned
\* (buffer.WriteUDPFrame on the stream)
StrmWriteData(s) ==
    /\ s \in 1..ostrmCount
    /\ ostrm[s].by = "udp"
    /\ ~ostrm[s].closed
    /\ Len(ostrm[s].log) <= MaxData
    /\ ostrm' = [ostrm EXCEPT ![s].log = Append(@, [ev |-> "data", type |-> 0]),
                              ![s].wire = @ \o <<0, 1, 0>>]
    /\ UNCHANGED ostrmCount

\* Client.CloseUDPStream(strm)
CloseUDPStream(s) ==
    /\ s \in 1..ostrmCount
    /\ ostrm[s].by = "udp"
    /\ ~ostrm[s].closed
    /\ ostrm' = [ostrm EXCEPT ![s].closed = TRUE]
    /\ UNCHANGED ostrmCount

\* C21: on every stream an initiator opens and uses without an error,
\* exactly one protocol frame is written, as the first bytes of the stream,
\* before any other data and before the stream is closed; the stream of a
\* ping with wait=false included.
C21_OneFrameFirst ==
    \A s \in 1..ostrmCount :
        LET st == ostrm[s]
            used == st.closed \/ \E i \in 1..Len(st.log) : st.log[i].ev = "data"
        IN  (used /\ st.err \notin {"io", "invalid address"}) =>
                /\ st.log # <<>>
                /\ st.log[1].ev = "frame"
                /\ \A i \in 2..Len(st.log) : st.log[i].ev = "data"

\* C23: there are exactly five frame kinds, 0x01 to 0x05: Read of a frame
\* whose first byte is anything else returns the unknown-type error, and
\* no initiator puts a frame of another kind on a stream.
FiveKinds == {PPING, PPONG, PTCPF, PTCP, PUDP}
C23_FiveKinds ==
    \A s \in 1..ostrmCount :
        /\ \A i \in 1..Len(ostrm[s].log) :
               ostrm[s].log[i].ev \in {"frame", "partial"} =>
                   ostrm[s].log[i].type \in FiveKinds
        /\ (ostrm[s].reply.n > 0 /\ ostrm[s].reply.p.Type \notin FiveKinds) =>
               ostrm[s].reply.err = "ErrUnknownProtoType"
\* ------------------------------------------------------------------------
\* UDP over a stream: buffer.WriteUDPFrame and buffer.ReadUDPFrame
\* ------------------------------------------------------------------------

MaxDgrams  == 2         \* WriteUDPFrame calls in a run
maxUDPLen  == 65535     \* if len(data) > 65535
readBufLen == 65535     \* len(buf) of the reader

\* The datagrams of the model: a length and a byte pattern
DgramLens == {0, 1, 300, 65535, 65536}
Dgrams == {[len |-> 0, fill |-> 0]}
              \cup [len : DgramLens \ {0}, fill : {0, 7}]
DgramBytes(d) == [i \in 1..d.len |-> (d.fill + i) % 256]

\* What a reader was handed: the datagram of the model with these bytes,
\* or, if there is none, the length alone
Describe(bytes) ==
    IF \E d \in Dgrams : DgramBytes(d) = bytes
    THEN CHOOSE d \in Dgrams : DgramBytes(d) = bytes
    ELSE [len |-> Len(bytes), fill |-> -1]

\* WriteUDPFrame(w, data): the bytes put on the stream, and the error
WriteUDPFrameOffByOne(data) ==
    IF Len(data) > maxUDPLen + 1 THEN Wrote(<<>>, "ErrShortBuffer")
    ELSE Wrote(PutUint16(Len(data)) \o data, "nil")
WriteUDPFrame(data) ==
    IF Len(data) > maxUDPLen THEN Wrote(<<>>, "ErrShortBuffer")
    ELSE Wrote(PutUint16(Len(data)) \o data, "nil")

\* ReadUDPFrame(r, buf) on the bytes r of the stream: n, buf[:n], the
\* error, and the number of bytes taken from the stream
UDPFrameRead(n, data, err, used) ==
    [n |-> n, data |-> data, err |-> err, used |-> used]
ReadUDPFrameLittleEndian(r, bufLen) ==
    IF Len(r) < 2 THEN UDPFrameRead(0, <<>>, ShortRead(r, 0), Len(r))
    ELSE LET length == r[2] * 256 + r[1]
         IN  IF length > bufLen THEN UDPFrameRead(0, <<>>, "ErrShortBuffer", 2)
             ELSE IF Len(r) < 2 + length
                 THEN UDPFrameRead(Len(r) - 2, SubSeq(r, 3, Len(r)),
                                   ShortRead(r, 2), Len(r))
             ELSE UDPFrameRead(length, SubSeq(r, 3, 2 + length), "nil",
                               2 + length)
ReadUDPFrame(r, bufLen) ==
    IF Len(r) < 2 THEN UDPFrameRead(0, <<>>, ShortRead(r, 0), Len(r))
    ELSE LET length == Uint16(SubSeq(r, 1, 2))
         IN  IF length > bufLen THEN UDPFrameRead(0, <<>>, "ErrShortBuffer", 2)
             ELSE IF Len(r) < 2 + length
                 THEN UDPFrameRead(Len(r) - 2, SubSeq(r, 3, Len(r)),
                                   ShortRead(r, 2), Len(r))
             ELSE UDPFrameRead(length, SubSeq(r, 3, 2 + length), "nil",
                               2 + length)

NoUFCall == [n |-> 0, len |-> 0, err |-> "nil"]
FrameIdle ==
    /\ ufStream = <<>>
    /\ ufSent = <<>>
    /\ ufRecv = <<>>
    /\ ufCall = NoUFCall

\* One end of the stream calls WriteUDPFrame(strm, data)
UFWrite(d) ==
    /\ ufCall.n < MaxDgrams
    /\ LET w == WriteUDPFrame(DgramBytes(d))
       IN  /\ ufStream' = ufStream \o w.bytes
           /\ ufSent' = IF w.err = "nil" THEN Append(ufSent, d) ELSE ufSent
           /\ ufCall' = [n |-> ufCall.n + 1, len |-> d.len, err |-> w.err]
    /\ UNCHANGED ufRecv

\* The other end calls ReadUDPFrame(strm, buf); with nothing on the
\* stream the call blocks in io.ReadFull.
UFRead ==
    /\ ufStream # <<>>
    /\ LET r == ReadUDPFrame(ufStream, readBufLen)
       IN  /\ ufStream' = SubSeq(ufStream, r.used + 1, Len(ufStream))
           /\ ufRecv' = Append(ufRecv, [n |-> r.n, d |-> Describe(r.data),
                                        err |-> r.err])
    /\ UNCHANGED <<ufSent, ufCall>>

\* C24: the datagrams d1..dk written with WriteUDPFrame (each of 0..65535
\* bytes) are what k successive ReadUDPFrame calls return, in order, each
\* with its length and content: the i-th call returns the i-th datagram.
C24_BoundariesPreserved ==
    /\ Len(ufRecv) <= Len(ufSent)
    /\ \A i \in 1..Len(ufRecv) :
           /\ ufRecv[i].err = "nil"
           /\ ufRecv[i].n = ufSent[i].len
           /\ ufRecv[i].d = ufSent[i]
    /\ (Len(ufRecv) = Len(ufSent)) => ufStream = <<>>

\* C24 witness: two datagrams, one of them of 65535 bytes, one empty, were
\* written before the first read, and both reads have returned.
C24_TwoReadBack ==
    /\ Len(ufRecv) = 2
    /\ {ufRecv[1].n, ufRecv[2].n} = {0, 65535}

\* C25: WriteUDPFrame with 65536 bytes or more returns an error and puts
\* no byte on the stream, header included; with exactly 65535 bytes it
\* writes header and payload, and the datagram is read back.
C25_TooLongRejected ==
    /\ [][ufCall' # ufCall =>
            IF ufCall'.len >= 65536
            THEN /\ ufCall'.err # "nil"
                 /\ ufStream' = ufStream
                 /\ ufSent' = ufSent
            ELSE /\ ufCall'.err = "nil"
                 /\ Len(ufStream') = Len(ufStream) + 2 + ufCall'.len
                 /\ Len(ufSent') = Len(ufSent) + 1
         ]_vars
    /\ [](\A i \in 1..Len(ufRecv) :
             (i <= Len(ufSent) /\ ufSent[i].len = 65535) =>
                 /\ ufRecv[i].err = "nil"
                 /\ ufRecv[i].n = 65535
                 /\ ufRecv[i].d = ufSent[i])

\* C25 witness: a datagram of 65535 bytes was written and read back, and
\* the call that followed, with 65536 bytes, was refused.
C25_MaxReadBackNextRefused ==
    /\ ufCall.len = 65536
    /\ ufCall.err = "ErrShortBuffer"
    /\ ufSent # <<>>
    /\ ufSent[1].len = 65535
    /\ ufRecv # <<>>
    /\ ufRecv[1].n = 65535
    /\ ufStream = <<>>

\* ------------------------------------------------------------------------
\* UDP-mux server: Demux.readLoop, Accept, clientConnReader.Read, Close
\* ------------------------------------------------------------------------

MaxPackets     == 3     \* packets the packet endpoint hands to readLoop
clientChanSize == 256   \* const clientChanSize
newConnSize    == 64    \* make(chan *clientConn, 64)
gcmNonceSize   == 12    \* c.aead.NonceSize() of cipher.NewGCM
gcmTagSize     == 16    \* the tag cipher.NewGCM appends

\* The senders: two UDP addresses, and an address that is no *net.UDPAddr
DemuxSrcs == {"10.0.0.2:5000", "10.0.0.3:5000", "raw"}
DemuxKeys == {"k1", "k2"}

\* Sources that sent their first packet before the run begins
EarlierSrc(j) == "10.1.0." \o ToString(j) \o ":5000"
EarlierSrcs == {EarlierSrc(j) : j \in 1..(newConnSize - 1)}
DemuxAllSrcs == DemuxSrcs \cup EarlierSrcs

\* The payloads that arrive: sealed by Cipher.Encrypt under a key (nonce,
\* ciphertext, tag), a sealed packet with a flipped bit, or other bytes
Sealed(key, plainLen) ==
    [kind |-> "sealed", key |-> key, plainLen |-> plainLen,
     len |-> gcmNonceSize + plainLen + gcmTagSize]
DemuxData ==
    {Sealed(k, n) : k \in DemuxKeys, n \in {0, 5}}
        \cup {[Sealed("k1", 5) EXCEPT !.kind = "tampered"]}
        \cup {[kind |-> "other", key |-> "", plainLen |-> 0, len |-> n] :
                 n \in {0, 5, 40}}

\* Cipher.Decrypt(data) of a cipher with this key: the plaintext (here its
\* length) and the error
Decrypt(key, data) ==
    IF data.len < gcmNonceSize
        THEN [plainLen |-> 0, err |-> "ciphertext too short"]
    ELSE IF data.kind = "sealed" /\ data.key = key
        THEN [plainLen |-> data.plainLen, err |-> "nil"]
    ELSE [plainLen |-> 0, err |-> "message authentication failed"]

NoEntry == [present |-> FALSE, ch |-> <<>>, closed |-> FALSE]
NoPacket == [n |-> 0, src |-> "", data |-> Sealed("", 0), fate |-> "none"]

DemuxIdle ==
    /\ dmCipher = ""
    /\ dmClients = [a \in DemuxAllSrcs |-> NoEntry]
    /\ dmNewConn = <<>>
    /\ dmLoop = "done"
    /\ dmClosed = TRUE
    /\ dmLast = NoPacket

\* NewDemux(pConn, cipher): the read loop is started
DemuxInit ==
    /\ dmCipher \in {"", "k1"}
    /\ dmClients = [a \in DemuxAllSrcs |-> NoEntry]
    /\ dmNewConn = <<>>
    /\ dmLoop = "running"
    /\ dmClosed = FALSE
    /\ dmLast = NoPacket

\* What one pass of readLoop does with a packet whose payload reached the
\* routing step with n valid bytes
Route(src, n) ==
    IF src = "raw" THEN
        /\ UNCHANGED <<dmClients, dmNewConn>>
    ELSE IF dmClients[src].present THEN
        /\ dmClients' = [dmClients EXCEPT ![src].ch =
                            IF Len(@) < clientChanSize THEN Append(@, n) ELSE @]
        /\ UNCHANGED dmNewConn
    ELSE
        /\ dmClients' = [dmClients EXCEPT ![src] =
                            [present |-> TRUE, ch |-> <<n>>, closed |-> FALSE]]
        /\ dmNewConn' = IF Len(dmNewConn) < newConnSize
                            THEN Append(dmNewConn, src) ELSE dmNewConn

\* readLoop, one pass: ReadFrom returned a packet; with a cipher the
\* payload is decrypted and dropped if that fails; &plain[0] of an empty
\* plaintext panics; the packet is routed by its source address.
DemuxReadLoopNoDrop(src, data) ==
    /\ dmLoop = "running"
    /\ ~dmClosed          \* ReadFrom on the closed endpoint returns an error
    /\ dmLast.n < MaxPackets
    /\ LET dec == IF dmCipher = "" THEN [plainLen |-> data.len, err |-> "nil"]
                  ELSE Decrypt(dmCipher, data)
           fate == IF dmCipher # "" /\ dec.err = "nil" /\ dec.plainLen = 0
                       THEN "panic"
                   ELSE IF src = "raw" THEN "dropped"
                   ELSE "routed"
       IN  /\ dmLast' = [n |-> dmLast.n + 1, src |-> src, data |-> data,
                         fate |-> fate]
           /\ dmLoop' = IF fate = "panic" THEN "panic" ELSE "running"
           /\ IF fate = "routed" THEN Route(src, dec.plainLen)
              ELSE UNCHANGED <<dmClients, dmNewConn>>
    /\ UNCHANGED <<dmCipher, dmClosed>>
DemuxReadLoop(src, data) ==
    /\ dmLoop = "running"
    /\ ~dmClosed          \* ReadFrom on the closed endpoint returns an error
    /\ dmLast.n < MaxPackets
    /\ LET dec == IF dmCipher = "" THEN [plainLen |-> data.len, err |-> "nil"]
                  ELSE Decrypt(dmCipher, data)
           fate == IF dec.err # "nil" THEN "dropped"
                   ELSE IF dmCipher # "" /\ dec.plainLen = 0 THEN "panic"
                   ELSE IF src = "raw" THEN "dropped"
                   ELSE "routed"
       IN  /\ dmLast' = [n |-> dmLast.n + 1, src |-> src, data |-> data,
                         fate |-> fate]
           /\ dmLoop' = IF fate = "panic" THEN "panic" ELSE "running"
           /\ IF fate = "routed" THEN Route(src, dec.plainLen)
              ELSE UNCHANGED <<dmClients, dmNewConn>>
    /\ UNCHANGED <<dmCipher, dmClosed>>

\* readLoop: d.pConn.ReadFrom returned an error (the endpoint is closed);
\* return, and the deferred close(d.done)
DemuxReadError ==
    /\ dmLoop = "running"
    /\ dmClosed
    /\ dmLoop' = "done"
    /\ UNCHANGED <<dmCipher, dmClients, dmNewConn, dmClosed, dmLast>>

\* Demux.Accept: cc := <-d.newConn
DemuxAccept ==
    /\ dmNewConn # <<>>
    /\ dmNewConn' = Tail(dmNewConn)
    /\ UNCHANGED <<dmCipher, dmClients, dmLoop, dmClosed, dmLast>>

\* clientConnReader.Read: pkt := <-r.cc.ch
ClientConnRead(a) ==
    /\ dmClients[a].present
    /\ dmClients[a].ch # <<>>
    /\ dmClients' = [dmClients EXCEPT ![a].ch = Tail(@)]
    /\ UNCHANGED <<dmCipher, dmNewConn, dmLoop, dmClosed, dmLast>>

\* Demux.Close: d.pConn.Close(); close(d.newConn)
DemuxClose ==
    /\ ~dmClosed
    /\ dmClosed' = TRUE
    /\ UNCHANGED <<dmCipher, dmClients, dmNewConn, dmLoop, dmLast>>

\* C26: a packet whose decryption fails is dropped silently by readLoop:
\* it reaches no client channel, creates no client entry and no accepted
\* connection, and the loop goes on to the next packet.
C26_DecryptFailureDropped ==
    [][(dmLast'.n # dmLast.n /\ dmCipher # ""
            /\ Decrypt(dmCipher, dmLast'.data).err # "nil") =>
           /\ dmClients' = dmClients
           /\ dmNewConn' = dmNewConn
           /\ dmLoop' = "running"
           /\ dmLast'.fate = "dropped"
      ]_vars

\* C26 witness: with a client already known, a packet from it that fails
\* to decrypt was dropped (its channel holds only the earlier packet), and
\* the loop is still running.
C26_DroppedAfterClientKnown ==
    /\ dmCipher # ""
    /\ dmLast.n >= 2
    /\ dmLast.src # "raw"
    /\ Decrypt(dmCipher, dmLast.data).err # "nil"
    /\ dmClients[dmLast.src].present
    /\ Len(dmClients[dmLast.src].ch) = 1
    /\ dmLoop = "running"

\* readLoop holds no packet
NoHeld == [src |-> "", data |-> Sealed("", 0)]
DemuxQIdle ==
    /\ dmHeld = NoHeld
    /\ dmSentClosed = FALSE
    /\ dmAccepted = {}

\* NewDemux has run; either nothing has arrived yet, or newConnSize - 1
\* sources have each sent a first packet and Accept has not been called
DemuxQInit ==
    \E b \in {0, newConnSize - 1} :
        /\ dmCipher \in {"", "k1"}
        /\ dmClients = [a \in DemuxAllSrcs |->
                          IF b > 0 /\ a \in EarlierSrcs
                            THEN [present |-> TRUE, ch |-> <<5>>, closed |-> FALSE]
                            ELSE NoEntry]
        /\ dmNewConn = [j \in 1..b |-> EarlierSrc(j)]
        /\ dmLoop = "running"
        /\ dmClosed = FALSE
        /\ dmLast = NoPacket
        /\ DemuxQIdle

\* readLoop: n, addr, err := d.pConn.ReadFrom(buf) returned a packet
DemuxReadFrom(src, data) ==
    /\ dmLoop = "running"
    /\ ~dmClosed
    /\ dmHeld = NoHeld
    /\ dmLast.n < MaxPackets
    /\ dmHeld' = [src |-> src, data |-> data]
    /\ UNCHANGED <<demuxVars, dmSentClosed, dmAccepted>>

\* readLoop: the rest of the pass: decrypt, look the source up, send the
\* packet to the client's channel; a new client is stored and sent to
\* d.newConn unless that channel is full.  A send on d.newConn after
\* Close has closed it panics.
DemuxHandle ==
    /\ dmLoop = "running"
    /\ dmHeld # NoHeld
    /\ LET src == dmHeld.src
           data == dmHeld.data
           dec == IF dmCipher = "" THEN [plainLen |-> data.len, err |-> "nil"]
                  ELSE Decrypt(dmCipher, data)
           fate == IF dec.err # "nil" THEN "dropped"
                   ELSE IF dmCipher # "" /\ dec.plainLen = 0 THEN "panic"
                   ELSE IF src = "raw" THEN "dropped"
                   ELSE "routed"
           sendClosed == fate = "routed" /\ ~dmClients[src].present /\ dmClosed
       IN  /\ dmLast' = [n |-> dmLast.n + 1, src |-> src, data |-> data,
                         fate |-> fate]
           /\ dmLoop' = IF fate = "panic" \/ sendClosed THEN "panic" ELSE "running"
           /\ dmSentClosed' = (dmSentClosed \/ sendClosed)
           /\ IF sendClosed
                THEN /\ dmClients' = [dmClients EXCEPT ![src] =
                            [present |-> TRUE, ch |-> <<dec.plainLen>>,
                             closed |-> FALSE]]
                     /\ UNCHANGED dmNewConn
              ELSE IF fate = "routed" THEN Route(src, dec.plainLen)
              ELSE UNCHANGED <<dmClients, dmNewConn>>
    /\ dmHeld' = NoHeld
    /\ UNCHANGED <<dmCipher, dmClosed, dmAccepted>>

\* readLoop: ReadFrom returned an error
DemuxQReadError ==
    /\ dmHeld = NoHeld
    /\ DemuxReadError
    /\ UNCHANGED dmqVars

\* Demux.Accept returns the next client of d.newConn
DemuxQAccept ==
    /\ DemuxAccept
    /\ dmAccepted' = dmAccepted \cup {Head(dmNewConn)}
    /\ UNCHANGED <<dmHeld, dmSentClosed>>

\* How often source a stands in d.newConn
Queued(a) == Cardinality({j \in 1..Len(dmNewConn) : dmNewConn[j] = a})

\* C37: every source that was registered in the client map (its packet
\* decrypted) is handed to Accept exactly once, however many new sources
\* arrive before Accept is called: it waits in d.newConn once, or Accept has
\* returned it.  (Stated for a demultiplexer whose read loop has not hit
\* the closed channel.)
C37_EveryClientAccepted ==
    ~dmSentClosed =>
        \A a \in DemuxAllSrcs :
            dmClients[a].present =>
                Queued(a) + (IF a \in dmAccepted THEN 1 ELSE 0) = 1

\* C38: once Close has run the read loop sends on no channel, in
\* particular not on the closed d.newConn, and Accept hands out no
\* client any more.
C38_NoSendAfterClose ==
    [][dmClosed =>
          /\ ~dmSentClosed'
          /\ dmNewConn' = dmNewConn
          /\ \A a \in DemuxAllSrcs :
                 /\ dmClients'[a].present = dmClients[a].present
                 /\ Len(dmClients'[a].ch) <= Len(dmClients[a].ch)]_vars
\* ------------------------------------------------------------------------
\* Crafted TCP packets: sequence numbers of the non-SYN packets of a flow
\* ------------------------------------------------------------------------

NSenders == 2       \* goroutines sending to the destination
MaxSends == 5       \* packets sent in a run
mss      == 1460    \* seq := baseSeq + counter*1460

Senders == 1..NSenders

\* baseSeq := randUint32(): some of the values it can return
SeqBases == {U32(0), <<1, 2>>, <<65535, 60000>>}

\* seq := baseSeq + counter*1460 in uint32 arithmetic
SeqOfCounterOnly(base, counter) == AddW(base, counter)
SeqOf(base, counter) == AddW(base, MulW(counter, mss))

\* a < b for 32-bit values
LessW(a, b) == a[1] < b[1] \/ (a[1] = b[1] /\ a[2] < b[2])

SeqIdle ==
    /\ sqBase = U32(0)
    /\ sqCounter = U32(0)
    /\ sqSender = [sn \in Senders |-> [pc |-> "off", seq |-> U32(0)]]
    /\ sqIssued = <<>>
    /\ sqWire = <<>>

\* The flow state of a destination that was just created
SeqInit ==
    /\ sqBase \in SeqBases
    /\ sqCounter = U32(0)
    /\ sqSender = [sn \in Senders |-> [pc |-> "idle", seq |-> U32(0)]]
    /\ sqIssued = <<>>
    /\ sqWire = <<>>

\* A sender builds a non-SYN packet: the counter is incremented (one atomic
\* step) and the sequence number computed from it
SendBuild(sn) ==
    /\ sqSender[sn].pc = "idle"
    /\ Len(sqIssued) < MaxSends
    /\ sqCounter' = AddW(sqCounter, U32(1))
    /\ LET seq == SeqOf(sqBase, sqCounter')
       IN  /\ sqSender' = [sqSender EXCEPT ![sn] = [pc |-> "built", seq |-> seq]]
           /\ sqIssued' = Append(sqIssued, seq)
    /\ UNCHANGED <<sqBase, sqWire>>

\* The sender injects the packet through the raw handle
SendInject(sn) ==
    /\ sqSender[sn].pc = "built"
    /\ sqWire' = Append(sqWire, sqSender[sn].seq)
    /\ sqSender' = [sqSender EXCEPT ![sn].pc = "idle"]
    /\ UNCHANGED <<sqBase, sqCounter, sqIssued>>

\* C27: the sequence numbers of the non-SYN packets to one destination,
\* taken in the order of the counter, are base + counter*1460: each is
\* greater than the one before by exactly 1460, and none repeats, however
\* many packets are sent and with concurrent senders.
C27_SeqIncreasingBy1460 ==
    /\ \A i \in 1..Len(sqIssued) :
           sqIssued[i] = SeqOf(sqBase, U32(i))
    /\ \A i \in 1..(Len(sqIssued) - 1) :
           /\ sqIssued[i + 1] = AddW(sqIssued[i], U32(mss))
           /\ LessW(sqIssued[i], sqIssued[i + 1])
    /\ \A i, j \in 1..Len(sqIssued) : i # j => sqIssued[i] # sqIssued[j]

\* C27 (amended): the sequence numbers are base + counter*1460 in 32-bit
\* arithmetic: taken in the order of the counter, each is the one before
\* plus 1460 modulo 2^32 (so it is smaller than the one before when the sum
\* passes 2^32), every packet that went out carries one of them, and no two
\* of the packets sent carry the same number.
C27_SeqStepMod32 ==
    /\ \A i \in 1..Len(sqIssued) :
           sqIssued[i] = AddW(sqBase, MulW(U32(i), mss))
    /\ \A i \in 1..(Len(sqIssued) - 1) :
           sqIssued[i + 1] = AddW(sqIssued[i], U32(mss))
    /\ \A i, j \in 1..Len(sqIssued) : i # j => sqIssued[i] # sqIssued[j]
    /\ \A k \in 1..Len(sqWire) : \E i \in 1..Len(sqIssued) : sqWire[k] = sqIssued[i]
    /\ \A k, l \in 1..Len(sqWire) : k # l => sqWire[k] # sqWire[l]

\* C27 witness: two senders' packets went out in the opposite order of the
\* counter, and the numbers passed 2^32 between two packets
C27_WrappedAndReordered ==
    /\ \E i \in 1..(Len(sqIssued) - 1) : LessW(sqIssued[i + 1], sqIssued[i])
    /\ \E k \in 1..(Len(sqWire) - 1) :
           sqWire[k] = AddW(sqWire[k + 1], U32(mss))

\* ------------------------------------------------------------------------
\* Configuration: defaults of the UDP-mux transport
\* ------------------------------------------------------------------------

\* type UDP struct: the fields setDefaults reads
UDPConf(block, smuxbuf, streambuf) ==
    [Block_ |-> block, Smuxbuf |-> smuxbuf, Streambuf |-> streambuf]

\* Values the YAML of a UDP section can hold (0 and "" when the key is absent)
CfgBlocks == {"", "aes", "salsa20"}
CfgSmuxbufs == {-1, 0, 1024 * 1024, 4 * 1024 * 1024, 8 * 1024 * 1024}
CfgStreambufs == {-1, 0, 512 * 1024, 2 * 1024 * 1024}
CfgRoles == {"client", "server"}

\* func (u *UDP) setDefaults(_ string)
setDefaults(u, role) ==
    UDPConf(IF u.Block_ = "" THEN "aes" ELSE u.Block_,
            IF u.Smuxbuf = 0 THEN 8 * 1024 * 1024 ELSE u.Smuxbuf,
            IF u.Streambuf = 0 THEN 4 * 1024 * 1024 ELSE u.Streambuf)

CfgIdle ==
    /\ cfIn = UDPConf("", 0, 0)
    /\ cfU = UDPConf("", 0, 0)
    /\ cfRole = ""
    /\ cfPc = "off"

\* The UDP section as the YAML decoder leaves it
CfgInit ==
    /\ cfIn \in {UDPConf(b, m, t) : b \in CfgBlocks, m \in CfgSmuxbufs, t \in CfgStreambufs}
    /\ cfU = cfIn
    /\ cfRole = ""
    /\ cfPc = "loaded"

\* u.setDefaults(role)
CfgSetDefaults(role) ==
    /\ cfPc = "loaded"
    /\ cfU' = setDefaults(cfU, role)
    /\ cfRole' = role
    /\ cfPc' = "defaulted"
    /\ UNCHANGED cfIn

\* C28: after the defaults were applied to a UDP-mux configuration, an
\* unset block is "aes", an unset smuxbuf is 4 MiB, an unset streambuf is
\* 2 MiB, and every value that was set is unchanged.
C28_UDPDefaults ==
    cfPc = "defaulted" =>
        /\ cfU.Block_ = (IF cfIn.Block_ = "" THEN "aes" ELSE cfIn.Block_)
        /\ cfU.Smuxbuf = (IF cfIn.Smuxbuf = 0 THEN 4 * 1024 * 1024 ELSE cfIn.Smuxbuf)
        /\ cfU.Streambuf = (IF cfIn.Streambuf = 0 THEN 2 * 1024 * 1024 ELSE cfIn.Streambuf)

\* ------------------------------------------------------------------------
\* Round-robin iterator over the endpoints of the session
\* ------------------------------------------------------------------------

MaxItems     == 4   \* endpoints of a session (transport.conn)
MaxNexts     == 7   \* Next calls in a run
NIterCallers == 2   \* goroutines calling Next

IterCallers == 1..NIterCallers

\* Next's choice of the element for index value i among n items; Items[k]
\* is endpoint k + 1.  (it.index is a uint64: it does not wrap within
\* MaxNexts calls.)
PickMaskOnly(i, n) == And16(i, n - 1, 16) + 1
Pick(i, n) ==
    IF And16(n, n - 1, 16) = 0 THEN And16(i, n - 1, 16) + 1
    ELSE (i % n) + 1

NoNext == [pc |-> "idle", i |-> 0]
IterIdle ==
    /\ itItems = 1
    /\ itIndex = 0
    /\ itCall = [c \in IterCallers |-> NoNext]
    /\ itLog = [i \in 1..MaxNexts |-> 0]

\* Client.Start has filled c.iter.Items with N >= 1 endpoints
IterInit ==
    /\ itItems \in 1..MaxItems
    /\ itIndex = 0
    /\ itCall = [c \in IterCallers |-> NoNext]
    /\ itLog = [i \in 1..MaxNexts |-> 0]

\* Next: i := it.index.Add(1)
IterAdd(c) ==
    /\ itCall[c].pc = "idle"
    /\ itIndex < MaxNexts
    /\ itIndex' = itIndex + 1
    /\ itCall' = [itCall EXCEPT ![c] = [pc |-> "pick", i |-> itIndex + 1]]
    /\ UNCHANGED <<itItems, itLog>>

\* Next: n := uint64(len(it.Items)); return it.Items[i&(n-1)] or
\* it.Items[i%n]
IterReturn(c) ==
    /\ itCall[c].pc = "pick"
    /\ itLog' = [itLog EXCEPT ![itCall[c].i] = Pick(itCall[c].i, itItems)]
    /\ itCall' = [itCall EXCEPT ![c] = NoNext]
    /\ UNCHANGED <<itItems, itIndex>>

\* C39: with N >= 1 endpoints every Next returns one of the N endpoints,
\* and any N consecutive results (in the order the calls drew their index,
\* whichever goroutines made them) are N different endpoints: each
\* endpoint exactly once.
C39_RoundRobinCoversAll ==
    /\ \A i \in 1..MaxNexts : itLog[i] \in 0..itItems
    /\ \A i \in 1..MaxNexts : (i > itIndex) => itLog[i] = 0
    /\ \A k \in 1..(MaxNexts - itItems + 1) :
           (\A i \in k..(k + itItems - 1) : itLog[i] # 0) =>
               {itLog[i] : i \in k..(k + itItems - 1)} = 1..itItems

\* C39 witness: three endpoints (not a power of two); all seven calls of
\* the run have returned, so windows of three starting at every residue
\* are in, and the last three results are the three endpoints.
C39_SevenResultsOfThree ==
    /\ itItems = 3
    /\ \A i \in 1..7 : itLog[i] # 0
    /\ {itLog[5], itLog[6], itLog[7]} = {1, 2, 3}

\* The subsystems of the wire formats and of the configuration, at rest
StrmIdle ==
    /\ ostrm = <<>>
    /\ ostrmCount = 0
MoreIdle ==
    TryIdle /\ RdrIdle /\ SessIdle /\ DemuxQIdle /\ IterIdle /\ ReadNIdle
WireIdle == ProtoIdle /\ StrmIdle /\ FrameIdle /\ DemuxIdle /\ SeqIdle /\ CfgIdle
                /\ MoreIdle

\* ------------------------------------------------------------------------
\* Specifications
\* ------------------------------------------------------------------------

SinkNext ==
    \E h \in Handlers :
        \/ GetFastLoad(h) /\ UNCHANGED notSink
        \/ HandleUDPDirectDial(h) /\ UNCHANGED notDirect
        \/ HandleUDPDirectDialFail(h) /\ UNCHANGED notDirect
        \/ HandleUDPDirectExit(h) /\ UNCHANGED notDirect
        \/ GetFastAdd(h) /\ UNCHANGED notSink
        \/ GetLockLoad(h) /\ UNCHANGED notSink
        \/ GetSlowAdd(h) /\ UNCHANGED notSink
        \/ GetDialStore(h) /\ UNCHANGED notSink
        \/ GetDialFail(h) /\ UNCHANGED notSink
        \/ AddStreamLoad(h) /\ UNCHANGED notSink
        \/ AddStreamCAS(h) /\ UNCHANGED notSink
        \/ HandlerExit(h) /\ UNCHANGED notSink
        \/ RemoveStreamLoad(h) /\ UNCHANGED notSink
        \/ RemoveStreamCAS(h) /\ UNCHANGED notSink
        \/ ReleaseDec(h) /\ UNCHANGED notSink
        \/ ReleaseDelete(h) /\ UNCHANGED notSink
        \/ ReleaseCancel(h) /\ UNCHANGED notSink
        \/ ReleaseClose(h) /\ UNCHANGED notSink
InitSink == SinkState0 /\ BPFIdle /\ SockIdle /\ PoolInit /\ NetIdle /\ ConnIdle
    /\ WireIdle
SpecSink == InitSink /\ [][SinkNext]_vars

BPFNext ==
    \/ BPFCompile /\ UNCHANGED notBPF
    \/ BPFRun /\ UNCHANGED notBPF
InitBPF == BPFInit /\ SinkState0 /\ SockIdle /\ PoolInit /\ NetIdle /\ ConnIdle
    /\ WireIdle
SpecBPF == InitBPF /\ [][BPFNext]_vars

SockNext ==
    \/ \E e \in Endpoints, port \in Ports, iptOK, handleOK \in BOOLEAN :
           New(e, port, iptOK, handleOK) /\ UNCHANGED notSock
    \/ \E d \in Ports : FrameArrives(d) /\ UNCHANGED notSock
    \/ Tick /\ UNCHANGED notSock
    \/ \E e \in Endpoints :
        \/ ReadFromEnter(e) /\ UNCHANGED notSock
        \/ ReadFromLoop(e) /\ UNCHANGED notSock
        \/ ReadFromFrame(e) /\ UNCHANGED notSock
        \/ ReadFromClosed(e) /\ UNCHANGED notSock
        \/ CloseCancel(e) /\ UNCHANGED notSock
        \/ CloseWaitReaders(e) /\ UNCHANGED notSock
        \/ CloseWaitTimeout(e) /\ UNCHANGED notSock
        \/ CloseHandle(e) /\ UNCHANGED notSock
        \/ CloseJoin(e) /\ UNCHANGED notSock
        \/ CloseRemove(e) /\ UNCHANGED notSock
InitSock ==
    /\ SockInit
    /\ SinkState0
    /\ bpfVariant \in (IF backend = "afpacket" THEN {1, 2} ELSE {2})
    /\ bpfFilter = NoFilter
    /\ bpfFrame = NoFrame
    /\ BPFState0
    /\ PoolInit
    /\ NetIdle
    /\ ConnIdle
    /\ WireIdle
SpecSock == InitSock /\ [][SockNext]_vars

PoolNext ==
    \/ \E c \in Callers, key \in Keys :
           UDPLoad(c, key) /\ UNCHANGED notPool
    \/ \E c \in Callers :
        \/ UDPNewStrm(c) /\ UNCHANGED notPool
        \/ UDPNewStrmErr(c) /\ UNCHANGED notPool
        \/ UDPHeader(c) /\ UNCHANGED notPool
        \/ UDPHeaderErr(c) /\ UNCHANGED notPool
        \/ UDPLoadOrStore(c) /\ UNCHANGED notPool
    \/ \E key \in Keys :
        \/ DeleteLoad(key) /\ UNCHANGED notPool
        \/ RangeVisit(key) /\ UNCHANGED notPool
        \/ RangeSkip(key) /\ UNCHANGED notPool
    \/ DeleteClose /\ UNCHANGED notPool
    \/ NetworkChange /\ UNCHANGED notPool
    \/ RangeClose /\ UNCHANGED notPool
    \/ RangeDelete /\ UNCHANGED notPool
    \/ RangeEnd /\ UNCHANGED notPool
    \/ TriggerReconnect /\ UNCHANGED notPool
    \/ HandleReturn /\ UNCHANGED notPool
    \/ \E i \in Conns : Reconnect(i) /\ UNCHANGED notPool
InitPool == PoolInit /\ SinkState0 /\ BPFIdle /\ SockIdle /\ NetIdle /\ ConnIdle
    /\ WireIdle
SpecPool == InitPool /\ [][PoolNext]_vars

MonNext ==
    \/ \E currentState \in NetStates :
           MonitorPoll(currentState) /\ UNCHANGED notMon
    \/ \E key \in Keys :
        \/ RangeVisit(key) /\ UNCHANGED notPool
        \/ RangeSkip(key) /\ UNCHANGED notPool
        \/ DeleteLoad(key) /\ UNCHANGED notPool
    \/ DeleteClose /\ UNCHANGED notPool
    \/ RangeClose /\ UNCHANGED notPool
    \/ RangeDelete /\ UNCHANGED notPool
    \/ RangeEnd /\ UNCHANGED notPool
    \/ TriggerReconnect /\ UNCHANGED notPool
    \/ HandleReturn /\ UNCHANGED notPool
    \/ \E i \in Conns : Reconnect(i) /\ UNCHANGED notPool
InitMon == MonInit /\ SinkState0 /\ BPFIdle /\ SockIdle /\ ConnIdle
    /\ WireIdle
SpecMon == InitMon /\ [][MonNext]_vars
ConnNext ==
    \/ \E w \in Workers :
        \/ NewStrmCall(w) /\ UNCHANGED notConn
        \/ NewConnLock(w) /\ UNCHANGED notConn
        \/ NewConnGet(w) /\ UNCHANGED notConn
        \/ NewConnPingOK(w) /\ UNCHANGED notConn
        \/ NewConnPingFail(w) /\ UNCHANGED notConn
        \/ NewStrmOpenOK(w) /\ UNCHANGED notConn
        \/ NewStrmOpenFail(w) /\ UNCHANGED notConn
        \/ NewStrmBackoff(w) /\ UNCHANGED notConn
    \/ \E x \in ConnIds : SendTCPFAsync(x) /\ UNCHANGED notConn
    \/ \E i \in Conns :
        \/ ReconnectTake(i) /\ UNCHANGED notConn
        \/ ReconnectLock(i) /\ UNCHANGED notConn
        \/ ReconnectClose(i) /\ UNCHANGED notConn
        \/ CreateConnOK(i) /\ UNCHANGED notConn
        \/ CreateConnFail(i) /\ UNCHANGED notConn
        \/ WaitConnSleep(i) /\ UNCHANGED notConn
        \/ ReconnectInstall(i) /\ UNCHANGED notConn
    \/ HealthTick /\ UNCHANGED notConn
    \/ HealthLoad /\ UNCHANGED notConn
    \/ HealthPingOK /\ UNCHANGED notConn
    \/ HealthPingFail /\ UNCHANGED notConn
InitConn == ConnIdle /\ PoolInit /\ SinkState0 /\ BPFIdle /\ SockIdle /\ NetIdle
    /\ WireIdle
SpecConn == InitConn /\ [][ConnNext]_vars

\* The same session with the scheduling the Go runtime gives: a goroutine
\* that can run does run (reconnect loops, weak fairness), and a goroutine
\* waiting for a sync.Mutex gets it (newStrm callers, strong fairness).
SpecConnLive ==
    /\ InitConn
    /\ [][ConnNext]_vars
    /\ \A i \in Conns : WF_vars(LoopStep(i))
    /\ \A w \in Workers : SF_vars(WorkerStep(w))
ReadLoopNext ==
    \/ ReadLoopRead /\ UNCHANGED notReadLoop
    \/ ReadLoopWriteOK /\ UNCHANGED notReadLoop
    \/ ReadLoopWriteFail /\ UNCHANGED notReadLoop
    \/ ReadLoopCancelled /\ UNCHANGED notReadLoop
    \/ ReadLoopReadError /\ UNCHANGED notReadLoop
    \/ \E h \in Handlers :
        \/ HandlerExit(h) /\ UNCHANGED notSink
        \/ RemoveStreamLoad(h) /\ UNCHANGED notSink
        \/ RemoveStreamCAS(h) /\ UNCHANGED notSink
        \/ ReleaseDec(h) /\ UNCHANGED notSink
        \/ ReleaseDelete(h) /\ UNCHANGED notSink
        \/ ReleaseCancel(h) /\ UNCHANGED notSink
        \/ ReleaseClose(h) /\ UNCHANGED notSink
InitReadLoop ==
    ReadLoopInit /\ BPFIdle /\ SockIdle /\ PoolInit /\ NetIdle /\ ConnIdle
        /\ WireIdle
SpecReadLoop == InitReadLoop /\ [][ReadLoopNext]_vars
ReadFromNext ==
    \/ \E r \in Readers :
        \/ ReadFromSelect(r) /\ UNCHANGED notRead
        \/ ReadFromCheck(r) /\ UNCHANGED notRead
        \/ ReadFromPayload(r) /\ UNCHANGED notRead
        \/ ReadFromPollTimeout(r) /\ UNCHANGED notRead
        \/ \E err \in HandleErrors : ReadFromError(r, err) /\ UNCHANGED notRead
    \/ ReadCtxCancel /\ UNCHANGED notRead
    \/ \E d \in {"none", "future"} : SetReadDeadline(d) /\ UNCHANGED notRead
    \/ ReadDeadlinePasses /\ UNCHANGED notRead
InitReadFrom ==
    SockIdle /\ SinkState0 /\ BPFIdle /\ PoolInit /\ NetIdle /\ ConnIdle
        /\ WireIdle
SpecReadFrom == InitReadFrom /\ [][ReadFromNext]_vars
ProtoNext ==
    \/ ProtoWriteStep /\ UNCHANGED notProto
    \/ (\E raw \in RawWires : PeerWrites(raw)) /\ UNCHANGED notProto
    \/ ProtoReadStep /\ UNCHANGED notProto
InitProto ==
    ProtoInit /\ SinkState0 /\ BPFIdle /\ SockIdle /\ PoolInit /\ NetIdle
        /\ ConnIdle /\ StrmIdle /\ FrameIdle /\ DemuxIdle /\ SeqIdle /\ CfgIdle /\ MoreIdle
SpecProto == InitProto /\ [][ProtoNext]_vars
StrmNext ==
    \/ (\E wait \in BOOLEAN, serr \in {"none", "atStart"}, raw \in Replies :
            Ping(wait, serr, raw)) /\ UNCHANGED notStrm
    \/ (\E serr \in StreamErrs : sendTCPF(serr)) /\ UNCHANGED notStrm
    \/ (\E ok \in BOOLEAN, serr \in StreamErrs : UDPNew(ok, serr))
           /\ UNCHANGED notStrm
    \/ (\E ok \in BOOLEAN, serr \in StreamErrs : UDPDatagramNew(ok, serr))
           /\ UNCHANGED notStrm
    \/ (\E s \in 1..MaxOpens : StrmWriteData(s)) /\ UNCHANGED notStrm
    \/ (\E s \in 1..MaxOpens : CloseUDPStream(s)) /\ UNCHANGED notStrm
InitStrm ==
    StrmIdle /\ ProtoIdle /\ SinkState0 /\ BPFIdle /\ SockIdle /\ PoolInit
        /\ NetIdle /\ ConnIdle /\ FrameIdle /\ DemuxIdle /\ SeqIdle /\ CfgIdle /\ MoreIdle
SpecStrm == InitStrm /\ [][StrmNext]_vars
FrameNext ==
    \/ (\E d \in Dgrams : UFWrite(d)) /\ UNCHANGED notFrame
    \/ UFRead /\ UNCHANGED notFrame
InitFrame ==
    FrameIdle /\ ProtoIdle /\ StrmIdle /\ SinkState0 /\ BPFIdle /\ SockIdle
        /\ PoolInit /\ NetIdle /\ ConnIdle /\ DemuxIdle /\ SeqIdle /\ CfgIdle /\ MoreIdle
SpecFrame == InitFrame /\ [][FrameNext]_vars
DemuxNext ==
    \/ (\E src \in DemuxSrcs, data \in DemuxData : DemuxReadLoop(src, data))
           /\ UNCHANGED notDemux
    \/ DemuxReadError /\ UNCHANGED notDemux
    \/ DemuxAccept /\ UNCHANGED notDemux
    \/ (\E a \in DemuxSrcs : ClientConnRead(a)) /\ UNCHANGED notDemux
    \/ DemuxClose /\ UNCHANGED notDemux
InitDemux ==
    DemuxInit /\ ProtoIdle /\ StrmIdle /\ FrameIdle /\ SinkState0 /\ BPFIdle
        /\ SockIdle /\ PoolInit /\ NetIdle /\ ConnIdle /\ SeqIdle /\ CfgIdle /\ MoreIdle
SpecDemux == InitDemux /\ [][DemuxNext]_vars
SeqNext ==
    \/ (\E sn \in Senders : SendBuild(sn)) /\ UNCHANGED notSeq
    \/ (\E sn \in Senders : SendInject(sn)) /\ UNCHANGED notSeq
InitSeq ==
    SeqInit /\ ProtoIdle /\ StrmIdle /\ FrameIdle /\ DemuxIdle /\ SinkState0
        /\ BPFIdle /\ SockIdle /\ PoolInit /\ NetIdle /\ ConnIdle /\ CfgIdle /\ MoreIdle
SpecSeq == InitSeq /\ [][SeqNext]_vars
CfgNext ==
    \/ (\E role \in CfgRoles : CfgSetDefaults(role)) /\ UNCHANGED notCfg
InitCfg ==
    CfgInit /\ ProtoIdle /\ StrmIdle /\ FrameIdle /\ DemuxIdle /\ SeqIdle
        /\ SinkState0 /\ BPFIdle /\ SockIdle /\ PoolInit /\ NetIdle /\ ConnIdle /\ MoreIdle
SpecCfg == InitCfg /\ [][CfgNext]_vars
TryNext ==
    \/ TryRead /\ UNCHANGED notReadLoopTry
    \/ TryWriteOK /\ UNCHANGED notReadLoopTry
    \/ TryWriteFail /\ UNCHANGED notReadLoopTry
    \/ \E h \in Handlers :
        \/ HandlerExit(h) /\ UNCHANGED notSinkTry
        \/ RemoveStreamLoad(h) /\ UNCHANGED notSinkTry
        \/ RemoveStreamCAS(h) /\ UNCHANGED notSinkTry
InitTry ==
    ReadLoopInit /\ TryIdle /\ RdrIdle /\ SessIdle /\ DemuxQIdle /\ IterIdle
        /\ ReadNIdle /\ BPFIdle /\ SockIdle /\ PoolInit /\ NetIdle
        /\ ConnIdle /\ ProtoIdle /\ StrmIdle /\ FrameIdle /\ DemuxIdle
        /\ SeqIdle /\ CfgIdle
SpecTry == InitTry /\ [][TryNext]_vars
PoolRdrNext ==
    \/ \E c \in Callers, key \in Keys :
           UDPLoad(c, key) /\ UNCHANGED <<rdrVars, notPoolRdr>>
    \/ \E c \in Callers :
        \/ UDPNewStrm(c) /\ UNCHANGED <<rdrVars, notPoolRdr>>
        \/ UDPHeader(c) /\ UNCHANGED <<rdrVars, notPoolRdr>>
        \/ HandleUDPStore(c) /\ UNCHANGED notPoolRdr
    \/ \E s \in StreamIds : ReaderCloseUDP(s) /\ UNCHANGED notPoolRdr
    \/ ReaderCloseDone /\ UNCHANGED notPoolRdr
    \/ \E key \in Keys :
        \/ RangeVisit(key) /\ UNCHANGED <<rdrVars, notPoolRdr>>
        \/ RangeSkip(key) /\ UNCHANGED <<rdrVars, notPoolRdr>>
    \/ NetworkChange /\ UNCHANGED <<rdrVars, notPoolRdr>>
    \/ RangeClose /\ UNCHANGED <<rdrVars, notPoolRdr>>
    \/ RangeDelete /\ UNCHANGED <<rdrVars, notPoolRdr>>
    \/ RangeEnd /\ UNCHANGED <<rdrVars, notPoolRdr>>
    \/ TriggerReconnect /\ UNCHANGED <<rdrVars, notPoolRdr>>
    \/ HandleReturn /\ UNCHANGED <<rdrVars, notPoolRdr>>
    \/ \E i \in Conns : Reconnect(i) /\ UNCHANGED <<rdrVars, notPoolRdr>>
InitPoolRdr ==
    PoolInit /\ RdrIdle /\ TryIdle /\ SessIdle /\ DemuxQIdle /\ IterIdle
        /\ ReadNIdle /\ SinkState0 /\ BPFIdle /\ SockIdle
        /\ NetIdle /\ ConnIdle /\ ProtoIdle /\ StrmIdle /\ FrameIdle
        /\ DemuxIdle /\ SeqIdle /\ CfgIdle
SpecPoolRdr == InitPoolRdr /\ [][PoolRdrNext]_vars
SessNext ==
    \/ \E w \in Workers :
        \/ NewStrmCall(w) /\ UNCHANGED <<sessVars, notConnSess>>
        \/ NewConnLock(w) /\ UNCHANGED <<sessVars, notConnSess>>
        \/ SessNewConnGet(w) /\ UNCHANGED notConnSess
        \/ NewConnPingOK(w) /\ UNCHANGED <<sessVars, notConnSess>>
        \/ SessNewConnPingFail(w) /\ UNCHANGED notConnSess
        \/ NewStrmOpenOK(w) /\ UNCHANGED <<sessVars, notConnSess>>
        \/ NewStrmOpenFail(w) /\ UNCHANGED <<sessVars, notConnSess>>
        \/ NewStrmBackoff(w) /\ UNCHANGED <<sessVars, notConnSess>>
    \/ \E x \in ConnIds : SendTCPFAsync(x) /\ UNCHANGED <<sessVars, notConnSess>>
    \/ \E i \in Conns :
        \/ SessReconnectTake(i) /\ UNCHANGED notConnSess
        \/ ReconnectLock(i) /\ UNCHANGED <<sessVars, notConnSess>>
        \/ ReconnectClose(i) /\ UNCHANGED <<sessVars, notConnSess>>
        \/ CreateConnOK(i) /\ UNCHANGED <<sessVars, notConnSess>>
        \/ CreateConnFail(i) /\ UNCHANGED <<sessVars, notConnSess>>
        \/ WaitConnSleep(i) /\ UNCHANGED <<sessVars, notConnSess>>
        \/ SessReconnectInstall(i) /\ UNCHANGED notConnSess
        \/ ReconnectLoopExit(i) /\ UNCHANGED notConnSess
        \/ TimedConnClose(i) /\ UNCHANGED notConnSess
    \/ CtxCancel /\ UNCHANGED notConnSess
    \/ HealthTick /\ UNCHANGED <<sessVars, notConnSess>>
    \/ HealthLoad /\ UNCHANGED <<sessVars, notConnSess>>
    \/ HealthPingOK /\ UNCHANGED <<sessVars, notConnSess>>
    \/ SessHealthPingFail /\ UNCHANGED notConnSess
InitSess ==
    ConnIdle /\ SessIdle /\ TryIdle /\ RdrIdle /\ DemuxQIdle /\ IterIdle
        /\ ReadNIdle /\ PoolInit /\ SinkState0
        /\ BPFIdle /\ SockIdle /\ NetIdle /\ ProtoIdle /\ StrmIdle
        /\ FrameIdle /\ DemuxIdle /\ SeqIdle /\ CfgIdle
SpecSess == InitSess /\ [][SessNext]_vars
DemuxQNext ==
    \/ (\E src \in DemuxSrcs, data \in DemuxData : DemuxReadFrom(src, data))
           /\ UNCHANGED notDemuxQ
    \/ DemuxHandle /\ UNCHANGED notDemuxQ
    \/ DemuxQReadError /\ UNCHANGED notDemuxQ
    \/ DemuxQAccept /\ UNCHANGED notDemuxQ
    \/ DemuxClose /\ UNCHANGED <<dmqVars, notDemuxQ>>
InitDemuxQ ==
    DemuxQInit /\ TryIdle /\ RdrIdle /\ SessIdle /\ IterIdle /\ ReadNIdle
        /\ ProtoIdle /\ StrmIdle
        /\ FrameIdle /\ SinkState0 /\ BPFIdle /\ SockIdle /\ PoolInit
        /\ NetIdle /\ ConnIdle /\ SeqIdle /\ CfgIdle
SpecDemuxQ == InitDemuxQ /\ [][DemuxQNext]_vars
IterNext ==
    \/ (\E c \in IterCallers : IterAdd(c)) /\ UNCHANGED notIter
    \/ (\E c \in IterCallers : IterReturn(c)) /\ UNCHANGED notIter
InitIter ==
    IterInit /\ TryIdle /\ RdrIdle /\ SessIdle /\ DemuxQIdle /\ ReadNIdle
        /\ ProtoIdle
        /\ StrmIdle /\ FrameIdle /\ DemuxIdle /\ SinkState0 /\ BPFIdle
        /\ SockIdle /\ PoolInit /\ NetIdle /\ ConnIdle /\ SeqIdle /\ CfgIdle
SpecIter == InitIter /\ [][IterNext]_vars
ReadNNext ==
    \/ \E r \in Readers :
        \/ ReadFromSelect(r) /\ UNCHANGED <<rdnVars, notReadN>>
        \/ ReadFromCheck(r) /\ UNCHANGED <<rdnVars, notReadN>>
        \/ (\E plen \in FramePayloads : ReadFromCopy(r, plen))
               /\ UNCHANGED notReadN
        \/ ReadFromPollTimeout(r) /\ UNCHANGED <<rdnVars, notReadN>>
        \/ (\E err \in HandleErrors : ReadFromError(r, err))
               /\ UNCHANGED <<rdnVars, notReadN>>
    \/ ReadCtxCancel /\ UNCHANGED <<rdnVars, notReadN>>
    \/ (\E d \in {"none", "future"} : SetReadDeadline(d))
           /\ UNCHANGED <<rdnVars, notReadN>>
    \/ ReadDeadlinePasses /\ UNCHANGED <<rdnVars, notReadN>>
InitReadN ==
    SockIdle /\ SinkState0 /\ BPFIdle /\ PoolInit /\ NetIdle /\ ConnIdle
        /\ WireIdle
SpecReadN == InitReadN /\ [][ReadNNext]_vars
====
